---- MODULE Spec2Model ----
(***************************************************************************)
(* Verification model of the WIZ LAN controller: the network scanner and   *)
(* its device registry (scanner.ts), the subnet utilities                  *)
(* (utils/network.ts), the protocol client (wiz-client.ts) and the device  *)
(* store (database.ts).                                                    *)
(*                                                                         *)
(* JavaScript values are modelled as follows.                              *)
(*   - an optional value is a tuple: <<>> is undefined, <<0, 0>> is null   *)
(*     and <<v>> is the value v;                                           *)
(*   - a JavaScript number is a pair [hi, lo] standing for hi*65536 + lo   *)
(*     (TLC integers are 32 bits wide, the program's are not); NaN is the  *)
(*     undefined tuple;                                                    *)
(*   - an IPv4 string is the tuple of its four decimal octets;             *)
(*   - a MAC string is a record of the device it names (key) and of its    *)
(*     spelling (letter case, separator, zero padding of the octets).      *)
(***************************************************************************)
EXTENDS Integers, Sequences, FiniteSets, TLC

(***************************************************************************)
(* Optional values                                                         *)
(***************************************************************************)
Undefined == <<>>
Null == <<0, 0>>
Some(v) == <<v>>
IsValue(o) == Len(o) = 1
Val(o) == o[1]
\* a ?? b
Nullish(a, b) == IF IsValue(a) THEN a ELSE b

(***************************************************************************)
(* Numbers: hi * 65536 + lo, lo in 0..65535                                *)
(***************************************************************************)
W16 == 2 ^ 16
Num(i) == [hi |-> i \div W16, lo |-> i % W16]
NumAdd(a, b) ==
    [hi |-> a.hi + b.hi + ((a.lo + b.lo) \div W16), lo |-> (a.lo + b.lo) % W16]
NumNeg(a) ==
    IF a.lo = 0 THEN [hi |-> 0 - a.hi, lo |-> 0]
    ELSE [hi |-> 0 - a.hi - 1, lo |-> W16 - a.lo]
NumSub(a, b) == NumAdd(a, NumNeg(b))
NumLess(a, b) == a.hi < b.hi \/ (a.hi = b.hi /\ a.lo < b.lo)
NumLeq(a, b) == a = b \/ NumLess(a, b)
\* Math.pow(2, e) for e in 0..32
Pow2(e) == IF e < 16 THEN [hi |-> 0, lo |-> 2 ^ e] ELSE [hi |-> 2 ^ (e - 16), lo |-> 0]
\* x >>> 0
ToUint32(a) == [hi |-> a.hi % W16, lo |-> a.lo]

(***************************************************************************)
(* utils/network.ts                                                        *)
(***************************************************************************)
\* acc << 8: the low 32 bits of acc * 256, read as a signed integer
ShiftLeft8(a) ==
    LET hi == (a.hi * 256 + (a.lo \div 256)) % W16
    IN  [hi |-> IF hi >= W16 \div 2 THEN hi - W16 ELSE hi, lo |-> (a.lo % 256) * 256]

RECURSIVE reduceOctets(_, _, _)
\* octets.reduce((acc, octet) => (acc << 8) + parseInt(octet, 10), acc) from octet j
reduceOctets(ip, j, acc) ==
    IF j > Len(ip) THEN acc
    ELSE reduceOctets(ip, j + 1, NumAdd(ShiftLeft8(acc), Num(ip[j])))

\* ipToNumber without the >>> 0
ipToNumberSigned(ip) == reduceOctets(ip, 1, Num(0))

\* ip.split('.').reduce((acc, octet) => (acc << 8) + parseInt(octet, 10), 0) >>> 0
ipToNumber(ip) == ToUint32(reduceOctets(ip, 1, Num(0)))

\* [(num >>> 24) & 255, (num >>> 16) & 255, (num >>> 8) & 255, num & 255].join('.')
\* of a number or NaN
numberToIp(n) ==
    IF ~IsValue(n) THEN <<0, 0, 0, 0>>
    ELSE LET u == ToUint32(Val(n))
         IN  <<u.hi \div 256, u.hi % 256, u.lo \div 256, u.lo % 256>>

\* parseInt(prefixStr, 10): a decimal string gives its value, a missing or
\* non-numeric string gives NaN
parseInt(str) == IF IsValue(str) THEN Some(Val(str)) ELSE Undefined

\* parseCIDR: the error it throws, or "none"
parseCIDRError(cidr) ==
    LET prefix == parseInt(cidr.prefix)
    IN  IF IsValue(prefix) /\ (Val(prefix) < 0 \/ Val(prefix) > 32)
        THEN "InvalidCIDR" ELSE "none"

\* parseCIDR: the record it returns when it does not throw
parseCIDR(cidr) ==
    LET prefix == parseInt(cidr.prefix)
        totalHosts == IF IsValue(prefix)
                      THEN Some(NumSub(Pow2(32 - Val(prefix)), Num(2)))
                      ELSE Undefined
        networkNum == ipToNumber(cidr.network)
        firstHostNum == Some(NumAdd(networkNum, Num(1)))
        lastHostNum == IF IsValue(totalHosts)
                       THEN Some(NumAdd(networkNum, Val(totalHosts)))
                       ELSE Undefined
    IN  [network |-> cidr.network,
         prefix |-> prefix,
         firstHost |-> numberToIp(firstHostNum),
         lastHost |-> numberToIp(lastHostNum),
         totalHosts |-> IF IsValue(totalHosts) /\ NumLess(Val(totalHosts), Num(0))
                        THEN Some(Num(0)) ELSE totalHosts]

MaxRange == 65536

\* enumerateHosts: the error it throws, or "none"
enumerateHostsError(cidr) ==
    IF parseCIDRError(cidr) # "none" THEN parseCIDRError(cidr)
    ELSE LET p == parseCIDR(cidr)
         IN  IF IsValue(p.totalHosts) /\ NumLess(Num(MaxRange), Val(p.totalHosts))
             THEN "TooLarge" ELSE "none"

RECURSIVE HostRange(_, _)
\* for (let i = firstNum; i <= lastNum; i++) hosts.push(numberToIp(i))
HostRange(i, lastNum) ==
    IF NumLeq(i, lastNum) THEN <<numberToIp(Some(i))>> \o HostRange(NumAdd(i, Num(1)), lastNum)
    ELSE <<>>

\* enumerateHosts: the list it returns when it does not throw
enumerateHosts(cidr) ==
    LET p == parseCIDR(cidr)
    IN  HostRange(ipToNumber(p.firstHost), ipToNumber(p.lastHost))

(***************************************************************************)
(* MAC strings                                                             *)
(***************************************************************************)
\* the spelling getARPTable produces: lowercase, colon-separated, padded
NormalMac(key) == [key |-> key, upper |-> FALSE, sep |-> "colon", pad |-> TRUE]
\* String.prototype.toLowerCase
toLowerCase(mac) == [mac EXCEPT !.upper = FALSE]
\* JavaScript truthiness of an optional string or number (no empty string
\* and no zero is modelled)
Truthy(o) == IsValue(o)
\* a || b
OrElse(a, b) == IF Truthy(a) THEN a ELSE b

(***************************************************************************)
(* shared/types.ts                                                         *)
(***************************************************************************)
ConfidenceLevel == {"low", "medium", "high"}

\* DeviceState, with every field optional
DeviceState(power, brightness, colorTemp, sceneId, rgb, speed) ==
    [power |-> power, brightness |-> brightness, colorTemp |-> colorTemp,
     sceneId |-> sceneId, rgb |-> rgb, speed |-> speed]

\* WizDevice
WizDevice(id, ip, mac, name, confidence, lastSeen, rssi, state, groups) ==
    [id |-> id, ip |-> ip, mac |-> mac, name |-> name, confidence |-> confidence,
     lastSeen |-> lastSeen, rssi |-> rssi, state |-> state, groups |-> groups]

\* device ids: the MAC string, or `ip-${ip}`
MacId(mac) == [mac |-> Some(mac), ip |-> Undefined]
IpId(ip) == [mac |-> Undefined, ip |-> Some(ip)]

\* device.state?.field
StateField(device, f) == IF IsValue(device.state) THEN Val(device.state)[f] ELSE Undefined

(***************************************************************************)
(* scanner.ts: the merge policy                                            *)
(***************************************************************************)
\* countDeviceFeatures
countDeviceFeatures(device) ==
      (IF Truthy(device.mac) THEN 1 ELSE 0)
    + (IF device.rssi # Undefined THEN 1 ELSE 0)
    + (IF IsValue(device.state)
       THEN   (IF Val(device.state).brightness # Undefined THEN 1 ELSE 0)
            + (IF Val(device.state).colorTemp # Undefined THEN 1 ELSE 0)
            + (IF Val(device.state).sceneId # Undefined THEN 1 ELSE 0)
            + (IF Val(device.state).power # Undefined THEN 1 ELSE 0)
       ELSE 0)

\* const confidenceOrder = { low: 0, medium: 1, high: 2 }
confidenceOrder(c) == CASE c = "low" -> 0 [] c = "medium" -> 1 [] c = "high" -> 2

\* shouldUpdateDevice
shouldUpdateDevice(existing, newDevice) ==
    \/ countDeviceFeatures(newDevice) > countDeviceFeatures(existing)
    \/ confidenceOrder(newDevice.confidence) > confidenceOrder(existing.confidence)

\* mergeDevices taking the candidate's confidence as it is
mergedConfidenceOverwrite(existing, newDevice) == newDevice.confidence

\* the confidence of the merged record
mergedConfidence(existing, newDevice) ==
    IF newDevice.confidence = "high" THEN "high" ELSE existing.confidence

\* mergeDevices overwriting the state with the candidate's fields
mergeDevicesOverwrite(existing, newDevice, now) ==
    WizDevice(existing.id, newDevice.ip, OrElse(newDevice.mac, existing.mac), Undefined,
              mergedConfidence(existing, newDevice), now,
              IF newDevice.rssi # Undefined THEN newDevice.rssi ELSE existing.rssi,
              Some(DeviceState(
                  Nullish(StateField(newDevice, "power"), Some(FALSE)),
                  StateField(newDevice, "brightness"),
                  StateField(newDevice, "colorTemp"),
                  StateField(newDevice, "sceneId"),
                  Undefined, Undefined)),
              Undefined)

\* mergeDevices: a new object holding only the fields listed in the code
\* (newDevice.ip is never empty, so `newDevice.ip || existing.ip` is newDevice.ip)
mergeDevices(existing, newDevice, now) ==
    WizDevice(existing.id,
              newDevice.ip,
              OrElse(newDevice.mac, existing.mac),
              Undefined,
              mergedConfidence(existing, newDevice),
              now,
              IF newDevice.rssi # Undefined THEN newDevice.rssi ELSE existing.rssi,
              Some(DeviceState(
                  Nullish(StateField(newDevice, "power"),
                          Nullish(StateField(existing, "power"), Some(FALSE))),
                  Nullish(StateField(newDevice, "brightness"), StateField(existing, "brightness")),
                  Nullish(StateField(newDevice, "colorTemp"), StateField(existing, "colorTemp")),
                  Nullish(StateField(newDevice, "sceneId"), StateField(existing, "sceneId")),
                  Undefined, Undefined)),
              Undefined)

(***************************************************************************)
(* wiz-client.ts, as the scanner sees it.  An outcome of sendCommand is a  *)
(* record: kind is "reply" (a decoded reply), "timeout", "malformed",      *)
(* "transport" or "senderr"; result is the reply's result payload.         *)
(***************************************************************************)
Thrown == <<0, 0, 0>>
\* a field of a reply that holds a value of another type than a string
NotAString == <<0, 0, 0, 0>>

Failure(kind) == [kind |-> kind, result |-> Undefined]
Reply(result) == [kind |-> "reply", result |-> result]

\* the result payload of a getPilot or getSystemConfig reply
Result(mac, rssi, state, dimming, temp, sceneId, rgb, speed) ==
    [mac |-> mac, rssi |-> rssi, state |-> state, dimming |-> dimming,
     temp |-> temp, sceneId |-> sceneId, rgb |-> rgb, speed |-> speed]

\* probe that lets the rejection of sendCommand through
probeNoCatch(outcome) ==
    IF outcome.kind = "reply"
    THEN IF outcome.result # Undefined /\ outcome.result # Null THEN Some(outcome) ELSE Null
    ELSE Thrown

\* WizClient.probe: the response when it has a result, null otherwise
probe(outcome) ==
    IF outcome.kind = "reply"
    THEN IF outcome.result # Undefined /\ outcome.result # Null THEN Some(outcome) ELSE Null
    ELSE Null

\* WizClient.getSystemConfig
getSystemConfig(outcome) ==
    IF outcome.kind = "reply"
    THEN IF outcome.result # Undefined /\ outcome.result # Null THEN Some(outcome) ELSE Null
    ELSE Null

\* WizClient.getState
getState(outcome) ==
    IF outcome.kind = "reply"
    THEN IF outcome.result = Undefined \/ outcome.result = Null THEN Null
         ELSE LET result == Val(outcome.result)
              IN  Some(DeviceState(Nullish(result.state, Some(FALSE)), result.dimming,
                                   result.temp, result.sceneId, result.rgb, result.speed))
    ELSE Null

(***************************************************************************)
(* scanner.ts: candidate construction                                      *)
(***************************************************************************)
\* the vendor the OUI database gives for a MAC: the devices whose key is in
\* EspressifKeys carry an Espressif OUI, the others an unrelated vendor's
EspressifKeys == {1}

\* checkMACVendor(mac).isWiz
checkMACVendor(mac) == mac.key \in EspressifKeys

\* the MAC probeHost settles on, or Thrown when .toLowerCase() is called on a
\* value that is not a string
probeHostMac(arpEntry, result, sysConfig) ==
    LET mac1 == arpEntry
        mac2 == IF ~Truthy(mac1) /\ result.mac # Undefined /\ result.mac # Null
                THEN IF result.mac = NotAString THEN Thrown ELSE Some(toLowerCase(Val(result.mac)))
                ELSE mac1
        sysMac == IF IsValue(sysConfig) /\ IsValue(Val(sysConfig).result)
                  THEN Val(Val(sysConfig).result).mac ELSE Undefined
    IN  IF mac2 = Thrown THEN Thrown
        ELSE IF ~Truthy(mac2) /\ sysMac # Undefined /\ sysMac # Null
             THEN IF sysMac = NotAString THEN Thrown ELSE Some(toLowerCase(Val(sysMac)))
             ELSE mac2

\* probeHost without the vendor check
probeHostConfidenceNoVendor(mac) == "high"

\* the confidence probeHost gives a candidate
probeHostConfidence(mac) ==
    IF Truthy(mac) /\ ~checkMACVendor(Val(mac)) THEN "medium" ELSE "high"

\* the device object probeHost builds from a reply that has a result
probeHostDevice(ip, mac, result, now) ==
    WizDevice(IF Truthy(mac) THEN MacId(Val(mac)) ELSE IpId(ip),
              ip, mac, Undefined, probeHostConfidence(mac), now, result.rssi,
              Some(DeviceState(Nullish(result.state, Some(FALSE)), result.dimming,
                               result.temp, result.sceneId, Undefined, Undefined)),
              Undefined)

\* probeHost without its catch block
probeHostNoCatch(ip, arpEntry, pilot, sysPilot, now) ==
    LET response == probe(pilot)
    IN  IF ~IsValue(response) \/ ~IsValue(Val(response).result) THEN Null
        ELSE LET result == Val(Val(response).result)
                 mac == probeHostMac(arpEntry, result, getSystemConfig(sysPilot))
             IN  IF mac = Thrown THEN Thrown
                 ELSE Some(probeHostDevice(ip, mac, result, now))

\* probeHost: Some(device), Null, or Thrown.  Every error raised inside is
\* caught and turned into null.
probeHost(ip, arpEntry, pilot, sysPilot, now) ==
    LET response == probe(pilot)
    IN  IF ~IsValue(response) \/ ~IsValue(Val(response).result) THEN Null
        ELSE LET result == Val(Val(response).result)
                 mac == probeHostMac(arpEntry, result, getSystemConfig(sysPilot))
             IN  IF mac = Thrown THEN Null
                 ELSE Some(probeHostDevice(ip, mac, result, now))

(***************************************************************************)
(* database.ts                                                             *)
(***************************************************************************)
\* the row saveDevice writes
saveDeviceRow(device, now) ==
    WizDevice(device.id, device.ip, OrElse(device.mac, Null), Undefined,
              device.confidence,
              IF device.lastSeen # 0 THEN device.lastSeen ELSE now,
              OrElse(device.rssi, Null),
              IF IsValue(device.state) THEN device.state ELSE Null, Undefined)

\* rowToDevice naming the device after its address instead of the row's id
rowToDeviceIpId(row) ==
    WizDevice(IpId(row.ip), row.ip, row.mac, Undefined, row.confidence, row.lastSeen,
              row.rssi, IF IsValue(row.state) THEN row.state ELSE Undefined,
              Some({}))

\* the object getAllDevices builds from a row
rowToDevice(row) ==
    WizDevice(row.id, row.ip, row.mac, Undefined, row.confidence, row.lastSeen,
              row.rssi, IF IsValue(row.state) THEN row.state ELSE Undefined,
              Some({}))

(***************************************************************************)
(* Bounds and inputs of the scanner model                                  *)
(***************************************************************************)
\* scans that pass setup in one behaviour
MaxScans == 2
\* the minutes that pass in one behaviour
MaxTicks == 1
\* the staleness threshold of removeStaleDevices, in minutes
StaleAfter == 5
\* the time at which the server starts, in minutes: late enough for a row
\* saved at minute 1 to be stale
Epoch == StaleAfter + 2
\* the concurrency scan() uses when the option is missing
DefaultConcurrency == 20
\* a progress snapshot is emitted when hostsScanned is a multiple of it
ProgressEvery == 10

\* the physical devices of the modelled network, by MAC key
DeviceKeys == {1, 2}

\* the MAC string a device's firmware puts in its replies: device 1 spells
\* it without separators, device 2 in capitals with colons
FirmwareMac(key) ==
    IF key = 1 THEN [key |-> key, upper |-> FALSE, sep |-> "none", pad |-> TRUE]
    ELSE [key |-> key, upper |-> TRUE, sep |-> "colon", pad |-> TRUE]

Network == <<192, 168, 1, 0>>
Cidr(prefix) == [network |-> Network, prefix |-> prefix]
\* the subnets a scan is asked for: 2 hosts, no host, a prefix out of range,
\* an oversized range
ScanSubnets == {Cidr(Some(30)), Cidr(Some(31)), Cidr(Some(33)), Cidr(Some(15))}
\* options.concurrency
ConcurrencyOptions == {Undefined, Some(1)}

\* getPilot replies of device key: a full one, one with a bare state, and
\* one whose mac is not a string
FullResult(key) ==
    Result(Some(FirmwareMac(key)), Some(0 - 60), Some(TRUE), Some(80), Some(4000), Some(1),
           Undefined, Undefined)
BareResult == Result(Undefined, Undefined, Some(TRUE), Undefined, Undefined, Undefined,
                     Undefined, Undefined)
OddResult == Result(NotAString, Undefined, Some(TRUE), Undefined, Undefined, Undefined,
                    Undefined, Undefined)
\* the ways a command sent to a host fails
Failures == {Failure("timeout"), Failure("transport"), Failure("malformed"),
             Failure("senderr")}
\* replies of a host that is no WIZ device (no result), or an odd one
NoDeviceReplies == {Reply(Undefined), Reply(Some(OddResult))}

(***************************************************************************)
(* State                                                                   *)
(***************************************************************************)
VARIABLES
    now,             \* Date.now(), in minutes
    scanInProgress,  \* NetworkScanner.scanInProgress
    devices,         \* NetworkScanner.devices: id -> WizDevice
    store,           \* the devices table of the database: id -> row
    scan,            \* the locals of the scan() call in progress
    running,         \* the scan() calls that are between setup and return
    progress,        \* the snapshots given to progressCallback by the last scan() call
    lastCall,        \* how the scan() call of the last step began ("none": no call)
    lastScan,        \* how the last scan() call that passed setup ended
    arpRuns,         \* the ARP lookups run so far
    refresh,         \* the getState calls of refreshDevices in flight
    trial,           \* a merge step applied on its own: its inputs and its result
    swept            \* what the removeStaleDevices call of the last step returned

vars == <<now, scanInProgress, devices, store, scan, running, progress, lastCall,
          lastScan, arpRuns, refresh, trial, swept>>

IdleScan ==
    [pc |-> "idle", hosts |-> <<>>, concurrency |-> 0, arpTable |-> <<>>, i |-> 0,
     tasks |-> {}, dispatched |-> <<>>, sent |-> 0, hostsScanned |-> 0, answered |-> 0,
     devicesFound |-> 0,
     results |-> <<>>, rejected |-> FALSE, answers |-> {}, unsaved |-> {}]

NoScan ==
    [outcome |-> "none", hostsScanned |-> 0, totalHosts |-> 0, sent |-> 0, answered |-> 0,
     results |-> <<>>, rejected |-> FALSE, answers |-> {}, unsaved |-> {}, ids |-> {},
     prev |-> [outcome |-> "none", answers |-> {}, ids |-> {}]]

\* no merge step is applied on its own
NoTrial == [kind |-> "none", existing |-> Undefined, candidate |-> Undefined]

\* a row a database may hold at startup: a device saved by an earlier run
StartupRow(key, ip, rssi, lastSeen) ==
    WizDevice(MacId(NormalMac(key)), ip, Some(NormalMac(key)), Undefined, "high", lastSeen,
              rssi, Some(DeviceState(Some(TRUE), Undefined, Undefined, Undefined,
                                     Undefined, Undefined)), Undefined)
StartupStores ==
    {<<>>} \cup
    {[x \in {MacId(NormalMac(1))} |-> StartupRow(1, <<192, 168, 1, 1>>, rssi, Epoch)] :
        rssi \in {Null, Some(0 - 60)}}

\* loadDevicesFromDatabase
loadDevicesFromDatabase(db) == [id \in DOMAIN db |-> rowToDevice(db[id])]

\* the state after the constructor ran on the database db at time t
Started(db, t) ==
    /\ now = t
    /\ scanInProgress = FALSE
    /\ store = db
    /\ devices = loadDevicesFromDatabase(db)
    /\ scan = IdleScan
    /\ running = 0
    /\ progress = <<>>
    /\ lastCall = "none"
    /\ lastScan = NoScan
    /\ arpRuns = 0
    /\ refresh = {}
    /\ trial = NoTrial
    /\ swept = Undefined

Init == \E db \in StartupStores : Started(db, Epoch)

(***************************************************************************)
(* scanner.ts: scan()                                                      *)
(***************************************************************************)
\* a snapshot given to progressCallback by emitProgress
Snapshot(sc) ==
    [scanning |-> TRUE,
     progress |-> [n |-> sc.hostsScanned * 100, d |-> Len(sc.hosts)],
     currentHost |-> IF sc.hostsScanned + 1 \in DOMAIN sc.hosts
                     THEN Some(sc.hosts[sc.hostsScanned + 1]) ELSE Undefined,
     devicesFound |-> sc.devicesFound,
     hostsScanned |-> sc.hostsScanned,
     totalHosts |-> Len(sc.hosts)]

\* the snapshot given to progressCallback by the finally block
FinalSnapshot(registrySize) ==
    [scanning |-> FALSE, progress |-> [n |-> 100, d |-> 1], currentHost |-> Undefined,
     devicesFound |-> registrySize, hostsScanned |-> 0, totalHosts |-> 0]

\* scanEntry without the guard on scanInProgress
scanEntryNoGuard(inProgress, subnet) ==
    IF enumerateHostsError(subnet) # "none"
    THEN [outcome |-> enumerateHostsError(subnet), flag |-> FALSE, finally |-> TRUE,
          arp |-> FALSE]
    ELSE [outcome |-> "started", flag |-> TRUE, finally |-> FALSE, arp |-> TRUE]

\* scanEntry with the flag not reset when setup fails
scanEntryNoReset(inProgress, subnet) ==
    IF inProgress
    THEN [outcome |-> "ScanInProgress", flag |-> inProgress, finally |-> FALSE, arp |-> FALSE]
    ELSE IF enumerateHostsError(subnet) # "none"
         THEN [outcome |-> enumerateHostsError(subnet), flag |-> TRUE, finally |-> TRUE,
               arp |-> FALSE]
         ELSE [outcome |-> "started", flag |-> TRUE, finally |-> FALSE, arp |-> TRUE]

\* scanEntry with the guard inside the try block, so that the finally block
\* runs for a rejected call
scanEntryGuardInTry(inProgress, subnet) ==
    IF inProgress
    THEN [outcome |-> "ScanInProgress", flag |-> FALSE, finally |-> TRUE, arp |-> FALSE]
    ELSE IF enumerateHostsError(subnet) # "none"
         THEN [outcome |-> enumerateHostsError(subnet), flag |-> FALSE, finally |-> TRUE,
               arp |-> FALSE]
         ELSE [outcome |-> "started", flag |-> TRUE, finally |-> FALSE, arp |-> TRUE]

\* scanEntry with the ARP lookup run before the subnet is validated
scanEntryArpFirst(inProgress, subnet) ==
    IF inProgress
    THEN [outcome |-> "ScanInProgress", flag |-> inProgress, finally |-> FALSE, arp |-> FALSE]
    ELSE IF enumerateHostsError(subnet) # "none"
         THEN [outcome |-> enumerateHostsError(subnet), flag |-> FALSE, finally |-> TRUE,
               arp |-> TRUE]
         ELSE [outcome |-> "started", flag |-> TRUE, finally |-> FALSE, arp |-> TRUE]

\* The part of scan() that runs before its first await: the guard, the flag,
\* the options, parseCIDR and enumerateHosts, then the call of getARPTable.
\* outcome is "ScanInProgress" (thrown before the try block), a setup error
\* (thrown inside it, so that the finally block runs) or "started".
scanEntry(inProgress, subnet) ==
    IF inProgress
    THEN [outcome |-> "ScanInProgress", flag |-> inProgress, finally |-> FALSE, arp |-> FALSE]
    ELSE IF enumerateHostsError(subnet) # "none"
         THEN [outcome |-> enumerateHostsError(subnet), flag |-> FALSE, finally |-> TRUE,
               arp |-> FALSE]
         ELSE [outcome |-> "started", flag |-> TRUE, finally |-> FALSE, arp |-> TRUE]

\* POST /api/scan: 409 when isScanning(), otherwise it calls scan()
postScanEntry(inProgress, subnet) ==
    IF inProgress
    THEN [outcome |-> "409", flag |-> inProgress, finally |-> FALSE, arp |-> FALSE]
    ELSE scanEntry(inProgress, subnet)

\* isScanning()
isScanning == scanInProgress

\* options.concurrency || 20
concurrencyOf(option) ==
    IF IsValue(option) /\ Val(option) # 0 THEN Val(option) ELSE DefaultConcurrency

\* an index argument of Array.prototype.slice on an array of len elements:
\* a negative one counts from the end, and both ends are clamped
sliceIndex(x, len) ==
    IF x < 0 THEN (IF len + x < 0 THEN 0 ELSE len + x)
    ELSE (IF x > len THEN len ELSE x)

\* hosts.slice(i, i + concurrency), as indices into hosts (from 1)
batchOf(hosts, i, concurrency) ==
    {k \in DOMAIN hosts : sliceIndex(i, Len(hosts)) < k
                          /\ k <= sliceIndex(i + concurrency, Len(hosts))}

\* the hosts of batch in the order batch.map starts their tasks
RECURSIVE batchOrder(_)
batchOrder(batch) ==
    IF batch = {} THEN <<>>
    ELSE LET k == CHOOSE x \in batch : \A y \in batch : x <= y
         IN  <<k>> \o batchOrder(batch \ {k})

\* the loop variable i after i += concurrency.  Below -hosts.length every
\* slice is empty and i < hosts.length holds whatever i is: one value stands
\* for all of them
loopIndex(i, len) == IF i < 0 - len THEN 0 - len ELSE i

\* a step that is no call of scan(), no sweep and no merge step on its own
NoCall == lastCall' = "none" /\ swept' = Undefined /\ UNCHANGED trial

\* the finally block of scan(), and the record of how the call ended
ScanReturns(sc, outcome, log, registry) ==
    /\ scanInProgress' = FALSE
    /\ running' = running - 1
    /\ scan' = IdleScan
    /\ progress' = Append(log, FinalSnapshot(Cardinality(DOMAIN registry)))
    /\ lastScan' = [outcome |-> outcome, hostsScanned |-> sc.hostsScanned,
                    totalHosts |-> Len(sc.hosts), sent |-> sc.sent,
                    answered |-> sc.answered, results |-> sc.results,
                    rejected |-> sc.rejected, answers |-> sc.answers,
                    unsaved |-> sc.unsaved,
                    ids |-> DOMAIN registry,
                    prev |-> [outcome |-> lastScan.outcome, answers |-> lastScan.answers,
                              ids |-> lastScan.ids]]

\* the head of the batch loop: dispatch the batch at i, or leave the loop,
\* emit the last progress snapshot and return; log holds the snapshots so far
ScanLoop(sc, log, registry) ==
    IF sc.i < Len(sc.hosts)
    THEN /\ scan' = [sc EXCEPT !.pc = "batch",
                               !.tasks = batchOf(sc.hosts, sc.i, sc.concurrency),
                               !.dispatched = sc.dispatched
                                   \o batchOrder(batchOf(sc.hosts, sc.i, sc.concurrency)),
                               !.sent = sc.sent
                                        + Cardinality(batchOf(sc.hosts, sc.i, sc.concurrency))]
         /\ progress' = log
         /\ UNCHANGED <<scanInProgress, running, lastScan>>
    ELSE ScanReturns(sc, "ok", Append(log, Snapshot(sc)), registry)

\* a call of scan() (direct) or of POST /api/scan (http)
ScanCall(via, subnet, concurrency) ==
    LET e == IF via = "http" THEN postScanEntry(isScanning, subnet)
             ELSE scanEntry(isScanning, subnet)
    IN  /\ e.outcome = "started" => arpRuns < MaxScans
        /\ lastCall' = e.outcome
        /\ scanInProgress' = e.flag
        /\ progress' = IF e.finally THEN <<FinalSnapshot(Cardinality(DOMAIN devices))>>
                       ELSE IF e.outcome = "started" THEN <<>> ELSE progress
        /\ arpRuns' = IF e.arp THEN arpRuns + 1 ELSE arpRuns
        /\ IF e.outcome = "started"
           THEN /\ running' = running + 1
                /\ scan' = [IdleScan EXCEPT !.pc = "arp", !.hosts = enumerateHosts(subnet),
                                            !.concurrency = concurrencyOf(concurrency)]
           ELSE /\ UNCHANGED running
                /\ scan' = IF e.outcome \in {"ScanInProgress", "409"} /\ scan.pc # "idle"
                           THEN [scan EXCEPT !.rejected = TRUE] ELSE scan
        /\ swept' = Undefined
        /\ UNCHANGED <<now, devices, store, lastScan, refresh, trial>>

\* getARPTable returns: one snapshot of the ARP table (empty when the lookup
\* failed), then the batch loop starts
ArpDone(table) ==
    /\ scan.pc = "arp"
    /\ ScanLoop([scan EXCEPT !.arpTable = table], progress, devices)
    /\ NoCall
    /\ UNCHANGED <<now, devices, store, arpRuns, refresh>>

\* mergeStep deciding on a lookup that missed the record: the candidate is
\* written as a new device
mergeStepStaleLookup(registry, device, now0) == [kind |-> "insert", record |-> device]

\* mergeStep merging the candidate into the record on the no-replace path too
mergeStepAlwaysMerge(registry, device, now0) ==
    IF device.id \notin DOMAIN registry
    THEN [kind |-> "insert", record |-> device]
    ELSE IF shouldUpdateDevice(registry[device.id], device)
         THEN [kind |-> "replace", record |-> mergeDevices(registry[device.id], device, now0)]
         ELSE [kind |-> "keep", record |-> mergeDevices(registry[device.id], device, now0)]

\* the merge step of a per-host task: what becomes of the registry entry of
\* the candidate's id; kind is "insert", "replace" or "keep"
mergeStep(registry, device, now0) ==
    IF device.id \notin DOMAIN registry
    THEN [kind |-> "insert", record |-> device]
    ELSE IF shouldUpdateDevice(registry[device.id], device)
         THEN [kind |-> "replace", record |-> mergeDevices(registry[device.id], device, now0)]
         ELSE [kind |-> "keep", record |-> [registry[device.id] EXCEPT !.lastSeen = now0]]

\* Map.set
MapSet(map, key, value) == [k \in DOMAIN map \cup {key} |-> IF k = key THEN value ELSE map[k]]
\* Map.delete of a set of keys
MapDelete(map, keys) == [k \in DOMAIN map \ keys |-> map[k]]

\* the objects held by refreshDevices that are no longer the registry's:
\* the entries of the ids in ids were replaced by new objects, or deleted
Detach(items, ids) ==
    {[it EXCEPT !.live = it.live /\ it.id \notin ids] : it \in items}

\* saveDevice called by a per-host task without the catch block around it
trySaveDeviceNoCatch(saved) == IF saved THEN "saved" ELSE "thrown"

\* saveDevice called by a per-host task, inside try/catch: an error of the
\* store is logged
trySaveDevice(saved) == IF saved THEN "saved" ELSE "logged"

\* results with the record of every merge step pushed, the no-replace path
\* included
resultsAfterEveryStep(results, m) ==
    IF m.kind \in {"insert", "replace", "keep"} THEN Append(results, m.record.id) ELSE results

\* results.push(device) and results.push(mergedDevice): the array scan()
\* returns, after the merge step m of a per-host task (by record id)
resultsAfter(results, m) ==
    IF m.kind \in {"insert", "replace"} THEN Append(results, m.record.id) ELSE results

\* A per-host task of the current batch completes: probeHost returned for
\* host k, with the getPilot and getSystemConfig outcomes given; saved tells
\* whether saveDevice succeeds.  (getModelConfig's outcome is not used by
\* the code.)
ProbeDone(k, pilot, sysPilot, saved) ==
    /\ scan.pc = "batch"
    /\ k \in scan.tasks
    /\ LET candidate == probeHost(scan.hosts[k], scan.arpTable[k], pilot, sysPilot, now)
           left == scan.tasks \ {k}
       IN  IF candidate = Thrown
           THEN \* the task rejects, Promise.all rejects and scan() unwinds
                /\ ScanReturns(scan, "error", progress, devices)
                /\ UNCHANGED <<devices, store, refresh>>
           ELSE IF IsValue(candidate) /\ trySaveDevice(saved) = "thrown"
           THEN \* the same, after the registry was written
                LET m == mergeStep(devices, Val(candidate), now)
                IN  /\ devices' = MapSet(devices, Val(candidate).id, m.record)
                    /\ ScanReturns([scan EXCEPT !.unsaved = scan.unsaved \cup
                                         {[kind |-> m.kind, id |-> m.record.id]}],
                                   "error", progress, devices')
                    /\ UNCHANGED <<store, refresh>>
           ELSE LET m == IF IsValue(candidate) THEN mergeStep(devices, Val(candidate), now)
                         ELSE [kind |-> "none"]
                    registry == IF IsValue(candidate)
                                THEN MapSet(devices, Val(candidate).id, m.record)
                                ELSE devices
                    sc == [scan EXCEPT
                             !.hostsScanned = scan.hostsScanned + 1,
                             !.answered = IF IsValue(candidate) THEN scan.answered + 1
                                          ELSE scan.answered,
                             !.answers = IF IsValue(candidate)
                                         THEN scan.answers \cup {[host |-> k, reply |-> pilot]}
                                         ELSE scan.answers,
                             !.devicesFound = IF m.kind = "insert" THEN scan.devicesFound + 1
                                              ELSE scan.devicesFound,
                             !.results = resultsAfter(scan.results, m),
                             !.unsaved = IF IsValue(candidate) /\ trySaveDevice(saved) # "saved"
                                         THEN scan.unsaved \cup
                                              {[kind |-> m.kind, id |-> m.record.id]}
                                         ELSE scan.unsaved,
                             !.tasks = left,
                             !.pc = IF left = {} THEN "delay" ELSE "batch"]
                IN  /\ devices' = registry
                    /\ store' = IF IsValue(candidate) /\ trySaveDevice(saved) = "saved"
                                THEN MapSet(store, m.record.id, saveDeviceRow(m.record, now))
                                ELSE store
                    /\ refresh' = IF m.kind = "replace"
                                  THEN Detach(refresh, {m.record.id}) ELSE refresh
                    /\ scan' = sc
                    /\ progress' = IF sc.hostsScanned % ProgressEvery = 0
                                   THEN Append(progress, Snapshot(sc)) ELSE progress
                    /\ UNCHANGED <<scanInProgress, running, lastScan>>
    /\ NoCall
    /\ UNCHANGED <<now, arpRuns>>

\* Promise.all of an empty batch resolves
EmptyBatchDone ==
    /\ scan.pc = "batch"
    /\ scan.tasks = {}
    /\ scan' = [scan EXCEPT !.pc = "delay"]
    /\ NoCall
    /\ UNCHANGED <<now, scanInProgress, devices, store, running, progress, lastScan,
                   arpRuns, refresh>>

\* the delay between two batches ends: i += concurrency, then the loop head
DelayDone ==
    /\ scan.pc = "delay"
    /\ ScanLoop([scan EXCEPT !.i = loopIndex(scan.i + scan.concurrency, Len(scan.hosts))],
                progress, devices)
    /\ NoCall
    /\ UNCHANGED <<now, devices, store, arpRuns, refresh>>

(***************************************************************************)
(* scanner.ts: the registry operations                                     *)
(***************************************************************************)
\* updateDevice(id, updates) for the updates the callers pass: {state} after
\* a state query, {name} from the metadata endpoint
updateDevice(registry, id, updates, now0) ==
    IF id \in DOMAIN registry
    THEN MapSet(registry, id,
                [[f \in DOMAIN registry[id] |->
                    IF f \in DOMAIN updates THEN updates[f] ELSE registry[id][f]]
                 EXCEPT !.lastSeen = now0])
    ELSE registry

\* removeStaleDevices removing the records that are as old as the threshold too
staleIdsInclusive(registry, now0) ==
    {id \in DOMAIN registry : registry[id].lastSeen <= now0 - StaleAfter}

\* the ids removeStaleDevices removes
staleIds(registry, now0) ==
    {id \in DOMAIN registry : registry[id].lastSeen < now0 - StaleAfter}

\* refreshDevices stamping the time at which the pass started
refreshStampAtStart(startedAt, now0) == startedAt

\* the lastSeen refreshDevices writes when a state reply arrived
refreshStamp(startedAt, now0) == now0

\* a caller got a state from getState(device.ip) and calls updateDevice
UpdateState(id, reply) ==
    /\ id \in DOMAIN devices
    /\ IsValue(getState(reply))
    /\ devices' = updateDevice(devices, id, [state |-> getState(reply)], now)
    /\ NoCall
    /\ UNCHANGED <<now, scanInProgress, store, scan, running, progress, lastScan, arpRuns,
                   refresh>>

\* PATCH /api/devices/:id/metadata with a name
UpdateName(id) ==
    /\ id \in DOMAIN devices
    /\ devices' = updateDevice(devices, id, [name |-> Some("lamp")], now)
    /\ NoCall
    /\ UNCHANGED <<now, scanInProgress, store, scan, running, progress, lastScan, arpRuns,
                   refresh>>

\* the sweep timer: removeStaleDevices
RemoveStale ==
    /\ devices' = MapDelete(devices, staleIds(devices, now))
    /\ refresh' = Detach(refresh, staleIds(devices, now))
    /\ swept' = Some(staleIds(devices, now))
    /\ lastCall' = "none"
    /\ UNCHANGED trial
    /\ UNCHANGED <<now, scanInProgress, store, scan, running, progress, lastScan, arpRuns>>

\* refreshDevices starts: one getState per record, each holding the record's
\* object
RefreshStart ==
    /\ refresh = {}
    /\ DOMAIN devices # {}
    /\ refresh' = {[id |-> id, live |-> TRUE, startedAt |-> now] : id \in DOMAIN devices}
    /\ NoCall
    /\ UNCHANGED <<now, scanInProgress, devices, store, scan, running, progress, lastScan,
                   arpRuns>>

\* one getState of refreshDevices returns
RefreshDone(it, reply) ==
    /\ it \in refresh
    /\ refresh' = refresh \ {it}
    /\ devices' = IF IsValue(getState(reply)) /\ it.live /\ it.id \in DOMAIN devices
                  THEN MapSet(devices, it.id,
                              [devices[it.id] EXCEPT
                                 !.state = getState(reply),
                                 !.lastSeen = refreshStamp(it.startedAt, now)])
                  ELSE devices
    /\ NoCall
    /\ UNCHANGED <<now, scanInProgress, store, scan, running, progress, lastScan, arpRuns>>

\* time passes
Tick(d) ==
    /\ now + d <= Epoch + MaxTicks
    /\ now' = now + d
    /\ NoCall
    /\ UNCHANGED <<scanInProgress, devices, store, scan, running, progress, lastScan,
                   arpRuns, refresh>>

(***************************************************************************)
(* The scan life cycle: calls of scan() and POST /api/scan in any order,   *)
(* hosts that fail in every way or answer with a bare state.               *)
(***************************************************************************)
NoArp == [k \in 1..2 |-> Undefined]

Next ==
    \/ \E via \in {"direct", "http"}, subnet \in ScanSubnets, c \in ConcurrencyOptions :
          ScanCall(via, subnet, c)
    \/ \E table \in {NoArp} : ArpDone(table)
    \/ \E k \in 1..2,
          pilot \in Failures \cup NoDeviceReplies \cup {Reply(Some(BareResult))} :
          ProbeDone(k, pilot, Failure("timeout"), TRUE)
    \/ DelayDone

Spec == Init /\ [][Next]_vars

(***************************************************************************)
(* Claims about the scan life cycle                                        *)
(***************************************************************************)
SetupErrors == {"InvalidCIDR", "TooLarge"}
Rejections == {"ScanInProgress", "409"}

\* C1: at most one scan is in the Scanning state at any time; a call made
\* while a scan is active is rejected (ScanInProgress, or 409 over HTTP) in
\* the same step and starts nothing, and a scan only ever starts in the step
\* of a call made while no scan is active.
C1_OneScanAtATime ==
    /\ [](running <= 1 /\ (isScanning <=> running = 1))
    /\ [][(isScanning /\ lastCall' # "none")
            => (lastCall' \in Rejections /\ running' = running /\ arpRuns' = arpRuns)]_vars
    /\ [][(running' > running \/ arpRuns' > arpRuns)
            => (~isScanning /\ lastCall' = "started")]_vars

\* a call was rejected while a scan was probing its hosts
C1_Witness ==
    lastCall = "ScanInProgress" /\ isScanning /\ running = 1 /\ scan.pc = "batch"

\* C2: a scan that ended has left Scanning: isScanning() is false whenever no
\* scan() call is between setup and return, in particular after a setup
\* failure and after a scan returned, and a call made then is not rejected.
C2_ScanLeavesScanning ==
    /\ [](running = 0 => ~isScanning)
    /\ [][(lastCall' \in SetupErrors \/ running' < running) => ~isScanning']_vars
    /\ [][(running = 0 /\ lastCall' # "none") => lastCall' \in SetupErrors \cup {"started"}]_vars

\* a second scan was accepted after the first one returned
C2_Witness ==
    lastCall = "started" /\ lastScan.outcome = "ok" /\ arpRuns = 2 /\ isScanning

\* C3: a rejected call changes nothing of the running scan: the flag stays
\* true, no snapshot is emitted, the registry and the store are unchanged, the
\* scan's locals are unchanged, and a scan during which a call was rejected
\* still probes every host and returns normally.
C3_RejectedCallHasNoEffect ==
    /\ [][lastCall' \in Rejections
            => /\ isScanning /\ isScanning'
               /\ progress' = progress
               /\ devices' = devices
               /\ store' = store
               /\ scan' = [scan EXCEPT !.rejected = TRUE]]_vars
    /\ [](lastScan.rejected
            => /\ lastScan.outcome = "ok"
               /\ lastScan.hostsScanned = lastScan.totalHosts
               /\ lastScan.sent = lastScan.totalHosts)

\* a scan of two hosts returned after a call was rejected during it
C3_Witness ==
    lastScan.rejected /\ lastScan.outcome = "ok" /\ lastScan.totalHosts = 2

\* C4: whatever the probes of the hosts end with, a scan that passed setup
\* probes every host and returns a result; when no host answered, the result
\* is the empty list.
C4_ProbeFailuresNeverAbort ==
    /\ lastScan.outcome \in {"none", "ok"}
    /\ lastScan.hostsScanned = lastScan.totalHosts
    /\ lastScan.sent = lastScan.totalHosts
    /\ lastScan.answered = 0 => lastScan.results = <<>>

\* a scan of two hosts returned and no host had answered
C4_Witness ==
    /\ lastScan.outcome = "ok" /\ lastScan.totalHosts = 2
    /\ lastScan.hostsScanned = 2 /\ lastScan.answered = 0

\* C5: a call that fails at setup (invalid CIDR, oversized range, scan
\* already running) runs no ARP lookup, sends no probe and leaves the
\* registry and the store as they were.
C5_SetupFailureBeforeNetwork ==
    [][lastCall' \in SetupErrors \cup Rejections
         => /\ arpRuns' = arpRuns
            /\ scan'.sent = scan.sent
            /\ scan'.tasks = scan.tasks
            /\ devices' = devices
            /\ store' = store]_vars

\* a call failed with an oversized range while the registry held a device
C5_Witness == lastCall = "TooLarge" /\ DOMAIN devices # {} /\ DOMAIN store # {}

\* C6: the progress observer is not invoked for a scan that fails at setup
\* because of its subnet.
C6_NoProgressOnSetupFailure == lastCall \in SetupErrors => progress = <<>>

(***************************************************************************)
(* Two scans of a network that does not change: host k is device k, which  *)
(* answers every getPilot with the same reply or not at all; the ARP table *)
(* holds the device's MAC or no entry for it, anew at each scan.           *)
(***************************************************************************)
Host(k) == enumerateHosts(Cidr(Some(30)))[k]

\* what getARPTable can return: per host, no entry or the MAC of its device
ArpTables == [1..2 -> {Undefined} \cup {Some(NormalMac(key)) : key \in DeviceKeys}]
StaticArpTables == {table \in ArpTables : \A k \in 1..2 : table[k] \in {Undefined, Some(NormalMac(k))}}

\* what host k answers to getPilot: device 1 includes its mac, device 2 does not
HostReplies(k) ==
    {Failure("timeout"), Reply(Some(IF k = 1 THEN FullResult(k) ELSE BareResult))}

InitRescan == Started(<<>>, Epoch)

NextRescan ==
    \/ \E c \in ConcurrencyOptions : ScanCall("direct", Cidr(Some(30)), c)
    \/ \E table \in StaticArpTables : ArpDone(table)
    \/ \E k \in 1..2 : \E pilot \in HostReplies(k) :
          ProbeDone(k, pilot, Failure("timeout"), TRUE)
    \/ DelayDone
    \/ Tick(1)

SpecRescan == InitRescan /\ [][NextRescan]_vars

\* C7: when two scans in a row got the same answers from the same hosts, the
\* registry after the second scan holds the same ids, and as many records, as
\* after the first, whatever the ARP table held at the start of each scan.
C7_RescanIsIdempotent ==
    (/\ lastScan.outcome = "ok" /\ lastScan.prev.outcome = "ok"
     /\ lastScan.answers # {} /\ lastScan.answers = lastScan.prev.answers)
    => /\ lastScan.ids = lastScan.prev.ids
       /\ Cardinality(lastScan.ids) = Cardinality(lastScan.prev.ids)

(***************************************************************************)
(* The merge step on its own: a registry holding one record, and a         *)
(* candidate of the same id.                                               *)
(***************************************************************************)
\* the getPilot results a candidate is built from (the MAC comes from ARP)
PilotResults ==
    {Result(Undefined, rssi, state, dimming, temp, sceneId, Undefined, Undefined) :
        rssi \in {Undefined, Some(0 - 60)}, state \in {Undefined, Some(TRUE)},
        dimming \in {Undefined, Some(80)}, temp \in {Undefined, Some(4000)},
        sceneId \in {Undefined, Some(1)}}

\* the candidates probeHost builds for host 1 at time t
Candidates(t) ==
    {Val(probeHost(Host(1), arpEntry, Reply(Some(result)), Failure("timeout"), t)) :
        arpEntry \in {Undefined} \cup {Some(NormalMac(key)) : key \in DeviceKeys},
        result \in PilotResults}

\* objects of type WizDevice that carry no state, or a state without power:
\* the candidates for which mergeDevices falls back on the existing power
TypedCandidates(t) ==
    {WizDevice(c.id, c.ip, c.mac, Undefined, c.confidence, t, Some(0 - 60), state, Undefined) :
        c \in Candidates(t),
        state \in {Undefined,
                   Some(DeviceState(Undefined, Undefined, Some(4000), Undefined, Undefined,
                                    Undefined))}}

\* the states a record can hold
RecordStates ==
    {Undefined} \cup
    {Some(DeviceState(Some(FALSE), brightness, colorTemp, sceneId, Some(<<255, 0, 0>>),
                      Some(100))) :
        brightness \in {Undefined, Some(30)}, colorTemp \in {Undefined, Some(2700)},
        sceneId \in {Undefined, Some(2)}}

\* the records of type WizDevice the registry can hold under id
ExistingRecords(id, t) ==
    {WizDevice(id, Host(2), mac, Some("lamp"), confidence, t, rssi, state, Some({})) :
        mac \in {Undefined, Null} \cup (IF IsValue(id.mac) THEN {id.mac} ELSE {}),
        confidence \in ConfidenceLevel,
        rssi \in {Undefined, Null, Some(0 - 70)},
        state \in RecordStates}

\* a registry holding existing over the database db, and candidate about to
\* be merged at time t
MergeOf(existing, candidate, db, t) ==
    /\ existing.id = candidate.id
    /\ now = t
    /\ scanInProgress = FALSE
    /\ store = db
    /\ devices = [id \in {existing.id} |-> existing]
    /\ scan = IdleScan
    /\ running = 0
    /\ progress = <<>>
    /\ lastCall = "none"
    /\ lastScan = NoScan
    /\ arpRuns = 0
    /\ refresh = {}
    /\ trial = [kind |-> "pending", existing |-> existing, candidate |-> candidate]
    /\ swept = Undefined

\* the merge step of a per-host task and its saveDevice, applied to the
\* candidate of trial
ApplyMerge ==
    /\ trial.kind = "pending"
    /\ LET m == mergeStep(devices, trial.candidate, now)
       IN  /\ devices' = MapSet(devices, trial.candidate.id, m.record)
           /\ store' = MapSet(store, m.record.id, saveDeviceRow(m.record, now))
           /\ trial' = [trial EXCEPT !.kind = m.kind]
    /\ lastCall' = "none"
    /\ swept' = Undefined
    /\ UNCHANGED <<now, scanInProgress, scan, running, progress, lastScan, arpRuns,
                   refresh>>

InitMerge ==
    \E candidate \in Candidates(Epoch) \cup TypedCandidates(Epoch) :
        \E existing \in ExistingRecords(candidate.id, Epoch - 1) :
            MergeOf(existing, candidate, <<>>, Epoch)

NextMerge == ApplyMerge

SpecMerge == InitMerge /\ [][NextMerge]_vars

\* the record under the candidate's id is the candidate of an earlier probe:
\* as it was inserted and saved in this run, or as loaded at startup from the
\* row an earlier run saved
InitReload ==
    \E candidate \in Candidates(Epoch), earlier \in Candidates(Epoch - 1), loaded \in BOOLEAN :
        LET db == [id \in {earlier.id} |-> saveDeviceRow(earlier, Epoch - 1)]
        IN  MergeOf(IF loaded THEN loadDevicesFromDatabase(db)[earlier.id] ELSE earlier,
                    candidate, db, Epoch)

SpecReload == InitReload /\ [][NextMerge]_vars

\* C8: for every existing record and candidate of the same id, the record's
\* confidence after the merge step (replace or no-replace) is at least the
\* existing record's; existing medium with candidate high gives high, and
\* existing high with candidate medium stays high.
C8_MergeNeverDowngrades ==
    trial.kind \in {"replace", "keep"}
    => LET before == trial.existing.confidence
           after == devices[trial.candidate.id].confidence
       IN  /\ confidenceOrder(after) >= confidenceOrder(before)
           /\ (before = "medium" /\ trial.candidate.confidence = "high") => after = "high"
           /\ (before = "high" /\ trial.candidate.confidence = "medium") => after = "high"

\* a richer candidate of confidence medium replaced a record of confidence
\* high, and the record is still high
C8_Witness ==
    /\ trial.kind = "replace"
    /\ trial.existing.confidence = "high" /\ trial.candidate.confidence = "medium"
    /\ devices[trial.candidate.id].confidence = "high"
    /\ devices[trial.candidate.id].rssi = trial.candidate.rssi
    /\ trial.existing.rssi # trial.candidate.rssi

\* the informative fields a record has a value for
presentFields(device) ==
      (IF IsValue(device.mac) THEN 1 ELSE 0)
    + (IF IsValue(device.rssi) THEN 1 ELSE 0)
    + (IF IsValue(StateField(device, "brightness")) THEN 1 ELSE 0)
    + (IF IsValue(StateField(device, "colorTemp")) THEN 1 ELSE 0)
    + (IF IsValue(StateField(device, "sceneId")) THEN 1 ELSE 0)
    + (IF IsValue(StateField(device, "power")) THEN 1 ELSE 0)

\* C10: the existing record is replaced if and only if the candidate has
\* more informative fields present than the existing record, or a strictly
\* higher confidence.
C10_ReplaceIffRicher ==
    trial.kind \in {"replace", "keep"}
    => (trial.kind = "replace"
        <=> \/ presentFields(trial.candidate) > presentFields(trial.existing)
            \/ confidenceOrder(trial.candidate.confidence)
                 > confidenceOrder(trial.existing.confidence))

(***************************************************************************)
(* The registry under every operation that writes lastSeen: scans, state   *)
(* and name updates, refreshDevices passes and the sweep, as time passes.  *)
(***************************************************************************)
\* the database at startup: a device saved a minute, or six minutes, ago
RegistryStores ==
    {[x \in {MacId(NormalMac(1))} |-> StartupRow(1, Host(1), Some(0 - 60), lastSeen)] :
        lastSeen \in {Epoch - StaleAfter - 1, Epoch - 1}}

InitRegistry == \E db \in RegistryStores : Started(db, Epoch)

\* the ARP table holds the MAC of every host's device
FullArp == [k \in 1..2 |-> Some(NormalMac(k))]

\* host 1 is the device of the database: it answers a getPilot in full, with
\* a bare state, or not at all; host 2 is no device
RegistryReplies(k) ==
    IF k = 1
    THEN {Failure("timeout"), Reply(Some(FullResult(1))), Reply(Some(BareResult))}
    ELSE {Failure("timeout")}

\* the outcomes of the getPilot of a state query
StateOutcomes ==
    {Failure("timeout"),
     Reply(Some(Result(Undefined, Undefined, Some(TRUE), Some(50), Undefined, Undefined,
                       Some(<<255, 0, 0>>), Undefined)))}

NextRegistry ==
    \/ ScanCall("direct", Cidr(Some(30)), Undefined)
    \/ ArpDone(FullArp)
    \/ \E k \in 1..2 : \E pilot \in RegistryReplies(k) :
          ProbeDone(k, pilot, Failure("timeout"), TRUE)
    \/ DelayDone
    \/ \E id \in DOMAIN devices, reply \in StateOutcomes : UpdateState(id, reply)
    \/ \E id \in DOMAIN devices : UpdateName(id)
    \/ RemoveStale
    \/ RefreshStart
    \/ \E it \in refresh, reply \in StateOutcomes : RefreshDone(it, reply)
    \/ Tick(1)

SpecRegistry == InitRegistry /\ [][NextRegistry]_vars

\* C9: in every step, whichever operation takes it, a record that stays in
\* the registry has a lastSeen greater than or equal to the one it had.
C9_LastSeenNeverMovesBackward ==
    [][\A id \in DOMAIN devices \cap DOMAIN devices' :
          devices'[id].lastSeen >= devices[id].lastSeen]_vars

\* after a scan in which a host answered and a minute later, a record holds
\* the state of a state query and a lastSeen later than the one last saved
C9_Witness ==
    \E id \in DOMAIN devices :
        /\ id \in DOMAIN store /\ devices[id].lastSeen > store[id].lastSeen
        /\ devices[id].lastSeen = Epoch + 1
        /\ lastScan.outcome = "ok" /\ lastScan.answered > 0
        /\ IsValue(StateField(devices[id], "rgb"))

(***************************************************************************)
(* Claims about the merged record                                          *)
(***************************************************************************)
\* the candidate's value when it has one, the existing value otherwise
Prefer(candidateValue, existingValue) ==
    IF IsValue(candidateValue) THEN candidateValue ELSE existingValue

\* C11: on replace the merged record keeps the existing id; ip, mac,
\* brightness, colorTemp and sceneId are the candidate's when it has one and
\* the existing one otherwise; power is the candidate's, else the existing
\* one, else false.
C11_ReplaceIsFieldUnion ==
    trial.kind = "replace"
    => LET e == trial.existing
           c == trial.candidate
           r == devices[trial.candidate.id]
       IN  /\ r.id = e.id
           /\ r.ip = c.ip
           /\ r.mac = Prefer(c.mac, e.mac)
           /\ \A f \in {"brightness", "colorTemp", "sceneId"} :
                 StateField(r, f) = Prefer(StateField(c, f), StateField(e, f))
           /\ StateField(r, "power")
                = Prefer(StateField(c, "power"), Prefer(StateField(e, "power"), Some(FALSE)))

\* a replace took the colour temperature from the candidate and kept the
\* brightness and the power only the existing record had
C11_Witness ==
    /\ trial.kind = "replace"
    /\ ~IsValue(StateField(trial.candidate, "brightness"))
    /\ ~IsValue(StateField(trial.candidate, "power"))
    /\ StateField(devices[trial.candidate.id], "brightness") = Some(30)
    /\ StateField(devices[trial.candidate.id], "power") = Some(FALSE)
    /\ StateField(trial.existing, "colorTemp") = Some(2700)
    /\ StateField(devices[trial.candidate.id], "colorTemp") = Some(4000)

\* the step is a per-host task of a scan replacing the record of id
ReplacedBy(id) ==
    /\ scan.pc = "batch"
    /\ id \in DOMAIN devices
    /\ Len(scan'.results) = Len(scan.results) + 1
    /\ scan'.results[Len(scan'.results)] = id

\* C12: when a scan replaces a record, the fields the candidate does not
\* carry (name, groups, state.rgb, state.speed) are still in the record
\* with the values they had.
C12_ReplaceKeepsOtherFields ==
    [][\A id \in DOMAIN devices \cap DOMAIN devices' :
          ReplacedBy(id)
          => /\ devices'[id].name = devices[id].name
             /\ devices'[id].groups = devices[id].groups
             /\ StateField(devices'[id], "rgb") = StateField(devices[id], "rgb")
             /\ StateField(devices'[id], "speed") = StateField(devices[id], "speed")]_vars

\* C13: on the no-replace path the record is the existing one with lastSeen
\* set to the time of the merge step and every other field as it was.
C13_NoReplaceKeepsRecord ==
    trial.kind = "keep"
    => /\ devices[trial.candidate.id] = [trial.existing EXCEPT !.lastSeen = now]
       /\ \A f \in DOMAIN trial.existing \ {"lastSeen"} :
             devices[trial.candidate.id][f] = trial.existing[f]

\* a sparser candidate met a named record holding a brightness and an older
\* lastSeen: the record kept its fields and its lastSeen is the present time
C13_Witness ==
    /\ trial.kind = "keep"
    /\ ~IsValue(StateField(trial.candidate, "brightness"))
    /\ trial.candidate.ip # trial.existing.ip
    /\ trial.existing.lastSeen < now
    /\ devices[trial.candidate.id].lastSeen = now
    /\ devices[trial.candidate.id].name = Some("lamp")
    /\ StateField(devices[trial.candidate.id], "brightness") = Some(30)

(***************************************************************************)
(* Scans over a store that may fail at any saveDevice: the device of the   *)
(* database, or a new one, answers in full, with a bare state or not at    *)
(* all.                                                                    *)
(***************************************************************************)
NextPersist ==
    \/ ScanCall("direct", Cidr(Some(30)), Undefined)
    \/ ArpDone(FullArp)
    \/ \E k \in 1..2, saved \in BOOLEAN : \E pilot \in RegistryReplies(k) :
          ProbeDone(k, pilot, Failure("timeout"), saved)
    \/ DelayDone
    \/ Tick(1)

SpecPersist == Init /\ [][NextPersist]_vars

\* C14: when saveDevice fails for an insert, a merge or a lastSeen refresh,
\* the store is as it was, the registry holds the new record, the scan goes
\* on, and it returns normally with every host probed.
C14_FailedPersistNeverAborts ==
    /\ [][\A u \in scan'.unsaved \ scan.unsaved :
             /\ store' = store
             /\ u.id \in DOMAIN devices' /\ devices'[u.id].lastSeen = now
             /\ u.kind = "insert" => u.id \notin DOMAIN devices
             /\ u.kind = "replace" => scan'.results = Append(scan.results, u.id)
             /\ scan'.hostsScanned = scan.hostsScanned + 1
             /\ isScanning']_vars
    /\ [](lastScan.unsaved # {}
            => /\ lastScan.outcome = "ok"
               /\ lastScan.hostsScanned = lastScan.totalHosts
               /\ lastScan.sent = lastScan.totalHosts)

\* a scan returned after the save of a merge failed: the registry holds the
\* merged record, the store the row of before
C14_Witness ==
    /\ lastScan.outcome = "ok" /\ lastScan.hostsScanned = 2
    /\ \E u \in lastScan.unsaved :
          /\ u.kind = "replace"
          /\ u.id \in DOMAIN devices /\ u.id \in DOMAIN store
          /\ StateField(devices[u.id], "brightness") = Some(80)
          /\ StateField(store[u.id], "brightness") = Undefined

(***************************************************************************)
(* The sweep, between scans and as time passes: the device of the database *)
(* is at host 1, another device at host 2; each answers with a bare state  *)
(* or not at all.                                                          *)
(***************************************************************************)
\* the database at startup: a device saved one, five or six minutes ago
SweepStores ==
    {[x \in {MacId(NormalMac(1))} |-> StartupRow(1, Host(1), Some(0 - 60), lastSeen)] :
        lastSeen \in {Epoch - StaleAfter - 1, Epoch - StaleAfter, Epoch - 1}}

InitSweep == \E db \in SweepStores : Started(db, Epoch)

NextSweep ==
    \/ ScanCall("direct", Cidr(Some(30)), Undefined)
    \/ ArpDone(FullArp)
    \/ \E k \in 1..2, pilot \in {Failure("timeout"), Reply(Some(BareResult))} :
          ProbeDone(k, pilot, Failure("timeout"), TRUE)
    \/ DelayDone
    \/ RemoveStale
    \/ Tick(1)

SpecSweep == InitSweep /\ [][NextSweep]_vars

\* C15: a sweep returns exactly the ids of the records last seen more than
\* StaleAfter minutes ago, removes exactly those from the registry and leaves
\* every other record as it was; a record last seen StaleAfter + 1 minutes
\* ago is among them.
C15_SweepRemovesExactlyStale ==
    [][IsValue(swept')
       => LET removed == Val(swept')
          IN  /\ removed = {id \in DOMAIN devices : now - devices[id].lastSeen > StaleAfter}
              /\ DOMAIN devices' = DOMAIN devices \ removed
              /\ \A id \in DOMAIN devices' : devices'[id] = devices[id]
              /\ \A id \in DOMAIN devices :
                    now - devices[id].lastSeen = StaleAfter + 1 => id \in removed]_vars

\* a sweep removed a record and kept another
C15_Witness ==
    /\ IsValue(swept) /\ Val(swept) # {}
    /\ Val(swept) \cap DOMAIN devices = {}
    /\ DOMAIN devices # {}

(***************************************************************************)
(* Claims about the identity and the fields of the candidates              *)
(***************************************************************************)
\* C16: every record a scan created has the normalized MAC as its mac and its
\* id when a MAC is known, and the id ip-<address> when none is.
C16_IdIsNormalizedMac ==
    \A id \in DOMAIN devices :
        IF IsValue(devices[id].mac)
        THEN /\ devices[id].mac = Some(NormalMac(Val(devices[id].mac).key))
             /\ id = MacId(NormalMac(Val(devices[id].mac).key))
        ELSE id = IpId(devices[id].ip)

(***************************************************************************)
(* Identity drift under the timers: a device at host 1 that answers every  *)
(* getPilot with a bare state is scanned without and then with its ARP     *)
(* entry, while the refresh timer and the sweep timer keep firing; there   *)
(* is no database.  Time                                                  *)
(* passes without bound: the clock is read relative to the present, so a   *)
(* minute passing makes every recorded time one minute older; times older  *)
(* than the staleness threshold are all alike.                             *)
(***************************************************************************)
\* a recorded time t, d minutes later, relative to the present now0
Aged(t, d, now0) ==
    IF t - d < now0 - StaleAfter - 1 THEN now0 - StaleAfter - 1 ELSE t - d

\* d minutes pass
Elapse(d) ==
    /\ devices' = [id \in DOMAIN devices |->
                     [devices[id] EXCEPT !.lastSeen = Aged(devices[id].lastSeen, d, now)]]
    /\ store' = [id \in DOMAIN store |->
                   [store[id] EXCEPT !.lastSeen = Aged(store[id].lastSeen, d, now)]]
    /\ refresh' = {[it EXCEPT !.startedAt = Aged(it.startedAt, d, now)] : it \in refresh}
    /\ NoCall
    /\ UNCHANGED <<now, scanInProgress, scan, running, progress, lastScan, arpRuns>>

\* the device answers every state query
StateReply ==
    Reply(Some(Result(Undefined, Undefined, Some(TRUE), Some(50), Undefined, Undefined,
                      Some(<<255, 0, 0>>), Undefined)))

InitDrift == Started(<<>>, Epoch)

\* a scan is asked for while none is running
DriftScanCall == ~isScanning /\ ScanCall("direct", Cidr(Some(30)), Undefined)

\* the steps of the scan in progress: the ARP table has no entry at the
\* first scan and the entries of the hosts from the second scan on
DriftScan ==
    \/ ArpDone(IF arpRuns = 1 THEN NoArp ELSE FullArp)
    \/ \E k \in 1..2 :
          ProbeDone(k, IF k = 1 THEN Reply(Some(BareResult)) ELSE Failure("timeout"),
                    Failure("timeout"), FALSE)
    \/ DelayDone

\* the refresh timer fires between two scans: a pass of refreshDevices
DriftRefresh ==
    /\ scan.pc = "idle"
    /\ \/ RefreshStart
       \/ \E it \in refresh : RefreshDone(it, StateReply)

\* the sweep timer fires between two scans and two refresh passes
DriftSweep == scan.pc = "idle" /\ refresh = {} /\ RemoveStale

NextDrift ==
    \/ DriftScanCall
    \/ DriftScan
    \/ DriftRefresh
    \/ DriftSweep
    \/ Elapse(1)

\* the timers keep firing, scans and refresh passes complete, time passes
SpecDrift ==
    /\ InitDrift /\ [][NextDrift]_vars
    /\ WF_vars(DriftScan) /\ WF_vars(DriftRefresh) /\ SF_vars(DriftSweep)
    /\ WF_vars(Elapse(1))

\* the device of host 1 is held under its ip-based id and under its MAC
Drifted ==
    /\ IpId(Host(1)) \in DOMAIN devices
    /\ MacId(NormalMac(1)) \in DOMAIN devices
    /\ devices[MacId(NormalMac(1))].ip = Host(1)

\* C17: once the device is held under its ip-based id and under its MAC, the
\* ip-based entry is eventually evicted, while the refresh and the sweep
\* keep running and the device keeps answering.
C17_DriftedEntryIsEvicted == Drifted ~> (IpId(Host(1)) \notin DOMAIN devices)

(***************************************************************************)
(* A device that changes its address: the device of the database, recorded *)
(* at host 1, answers at host 1 or at host 2, and the ARP table follows.   *)
(***************************************************************************)
\* the ARP tables when device 1 is at host 1, and when it is at host 2
MovedArpTables ==
    {[k \in 1..2 |-> IF k = at THEN Some(NormalMac(1)) ELSE Undefined] : at \in 1..2}

NextMove ==
    \/ ScanCall("direct", Cidr(Some(30)), Undefined)
    \/ \E table \in MovedArpTables : ArpDone(table)
    \/ \E k \in 1..2,
          pilot \in {Failure("timeout"), Reply(Some(BareResult)), Reply(Some(FullResult(1)))} :
          ProbeDone(k, pilot, Failure("timeout"), TRUE)
    \/ DelayDone
    \/ Tick(1)

SpecMove == Init /\ [][NextMove]_vars

\* the candidate built from the answer a of the scan in progress
CandidateOf(a) ==
    Val(probeHost(scan.hosts[a.host], scan.arpTable[a.host], a.reply, Failure("timeout"), now))

\* C18: when a device that is in the registry answers a probe, the ip of its
\* record, in the registry and in the store, is the address it answered from.
C18_IpIsCurrentAddress ==
    [][\A a \in scan'.answers \ scan.answers :
          CandidateOf(a).id \in DOMAIN devices
          => /\ devices'[CandidateOf(a).id].ip = CandidateOf(a).ip
             /\ store'[CandidateOf(a).id].ip = CandidateOf(a).ip]_vars

\* C19: a step that sets the name of a record, which involves no contact
\* with the device, leaves the record's lastSeen as it was.
C19_NamingLeavesLastSeen ==
    [][\A id \in DOMAIN devices \cap DOMAIN devices' :
          (IsValue(devices'[id].name) /\ devices'[id].name # devices[id].name)
          => devices'[id].lastSeen = devices[id].lastSeen]_vars

(***************************************************************************)
(* probeHost on its own: one host, with every ARP entry, getPilot outcome  *)
(* and getSystemConfig outcome.                                            *)
(***************************************************************************)
\* the outcomes of getPilot
PilotOutcomes ==
    Failures \cup NoDeviceReplies \cup {Reply(Null)}
    \cup {Reply(Some(result)) : result \in PilotResults \cup {FullResult(key) : key \in DeviceKeys}}

\* the outcomes of getSystemConfig
SysConfigOutcomes ==
    {Failure("timeout"), Reply(Undefined)}
    \cup {Reply(Some(Result(Some(FirmwareMac(key)), Undefined, Undefined, Undefined, Undefined,
                            Undefined, Undefined, Undefined))) : key \in DeviceKeys}

InitProbe ==
    \E arpEntry \in {Undefined} \cup {Some(NormalMac(key)) : key \in DeviceKeys},
       pilot \in PilotOutcomes, sysPilot \in SysConfigOutcomes :
        /\ now = Epoch /\ scanInProgress = FALSE /\ store = <<>> /\ devices = <<>>
        /\ scan = IdleScan /\ running = 0 /\ progress = <<>> /\ lastCall = "none"
        /\ lastScan = NoScan /\ arpRuns = 0 /\ refresh = {} /\ swept = Undefined
        /\ trial = [kind |-> "probe", arpEntry |-> arpEntry, pilot |-> pilot,
                    sysPilot |-> sysPilot, candidate |-> Undefined]

\* probeHost returns for the host of trial
ApplyProbe ==
    /\ trial.kind = "probe"
    /\ trial' = [trial EXCEPT !.kind = "probed",
                              !.candidate = probeHost(Host(1), trial.arpEntry, trial.pilot,
                                                      trial.sysPilot, now)]
    /\ lastCall' = "none"
    /\ swept' = Undefined
    /\ UNCHANGED <<now, scanInProgress, devices, store, scan, running, progress, lastScan,
                   arpRuns, refresh>>

NextProbe == ApplyProbe

SpecProbe == InitProbe /\ [][NextProbe]_vars

\* the getPilot outcome carries a result payload
HasResult(pilot) == pilot.kind = "reply" /\ IsValue(pilot.result)

\* C20: a candidate has confidence high or medium; it is medium exactly when
\* it has a MAC that the vendor check does not recognise; a host whose
\* getPilot gave no result payload gives no candidate.
C20_CandidateConfidence ==
    trial.kind = "probed"
    => /\ IsValue(trial.candidate)
          => /\ Val(trial.candidate).confidence \in {"high", "medium"}
             /\ Val(trial.candidate).confidence = "medium"
                <=> /\ IsValue(Val(trial.candidate).mac)
                    /\ ~checkMACVendor(Val(Val(trial.candidate).mac))
       /\ ~HasResult(trial.pilot) => ~IsValue(trial.candidate)

\* without an ARP entry and a mac in the getPilot reply, the system config
\* reply gave the MAC of another vendor, and the candidate is medium
C20_Witness ==
    /\ trial.kind = "probed" /\ IsValue(trial.candidate)
    /\ trial.arpEntry = Undefined /\ Val(trial.pilot.result).mac = Undefined
    /\ IsValue(Val(trial.candidate).mac)
    /\ Val(trial.candidate).confidence = "medium"

(***************************************************************************)
(* What scan() returns                                                     *)
(***************************************************************************)
\* C21: scan() returns the records this pass changed: the task of a host
\* that answered pushes its record exactly when the record is new or is
\* replaced through a merge; the no-replace path and every other step push
\* nothing, and the call returns the array as the tasks left it.
C21_ResultIsChangedRecords ==
    [][/\ \A a \in scan'.answers \ scan.answers :
             scan'.results =
                 IF \/ CandidateOf(a).id \notin DOMAIN devices
                    \/ shouldUpdateDevice(devices[CandidateOf(a).id], CandidateOf(a))
                 THEN Append(scan.results, CandidateOf(a).id) ELSE scan.results
       /\ (scan'.answers = scan.answers /\ scan.pc # "idle" /\ scan'.pc # "idle")
          => scan'.results = scan.results
       /\ (scan.pc # "idle" /\ scan'.pc = "idle" /\ lastScan'.outcome = "ok")
          => lastScan'.results = scan.results]_vars

\* two scans returned: in the first the device answered in full and its
\* record is in the result, in the second it took the no-replace path and
\* the result is empty
C21_Witness ==
    /\ lastScan.outcome = "ok" /\ lastScan.prev.outcome = "ok"
    /\ lastScan.answered = 1 /\ lastScan.results = <<>>
    /\ \E a \in lastScan.prev.answers : a.reply = Reply(Some(FullResult(1)))
    /\ MacId(NormalMac(1)) \in DOMAIN devices

(***************************************************************************)
(* The batch loop: scans of a /29 (6 hosts) with every kind of number the  *)
(* concurrency option can hold; host 1 is a device, the others time out.   *)
(* Every step of a scan in progress is taken sooner or later: the ARP      *)
(* lookup returns, each probe settles within its timeout, the timer of the *)
(* delay fires.                                                            *)
(***************************************************************************)
\* options.concurrency: missing, 0, positive and negative numbers
BatchConcurrency == {Undefined, Some(0), Some(1), Some(4), Some(0 - 1), Some(0 - 4)}
\* the hosts of the subnet, as indices into hosts (from 1)
BatchHosts == DOMAIN enumerateHosts(Cidr(Some(29)))
BatchArp == [k \in BatchHosts |-> Undefined]

BatchStep ==
    \/ ArpDone(BatchArp)
    \/ \E k \in BatchHosts :
          \E pilot \in {Failure("timeout")} \cup (IF k = 1 THEN {Reply(Some(BareResult))} ELSE {}) :
              ProbeDone(k, pilot, Failure("timeout"), TRUE)
    \/ EmptyBatchDone
    \/ DelayDone

NextBatch ==
    \/ \E c \in BatchConcurrency : ScanCall("direct", Cidr(Some(29)), c)
    \/ BatchStep

SpecBatch == Started(<<>>, Epoch) /\ [][NextBatch]_vars /\ WF_vars(BatchStep)

\* C22: the probes in flight are never more than the concurrency limit, a
\* batch is dispatched only when no probe of an earlier batch is in flight
\* and after the hosts before it, and when the scan returns every host was
\* probed exactly once.
C22_BatchesBoundedOrderedComplete ==
    [][/\ scan'.tasks # {} => Cardinality(scan'.tasks) <= scan'.concurrency
       /\ scan'.dispatched # scan.dispatched => scan.tasks = {}
       /\ \A a, b \in DOMAIN scan'.dispatched : a < b => scan'.dispatched[a] < scan'.dispatched[b]
       /\ (scan.pc # "idle" /\ scan'.pc = "idle")
          => \A k \in DOMAIN scan.hosts :
                Cardinality({a \in DOMAIN scan.dispatched : scan.dispatched[a] = k}) = 1]_vars

\* C23: every scan that passed setup returns, and isScanning() is false
\* again.
C23_ScanTerminates == isScanning ~> ~isScanning

(***************************************************************************)
(* Progress snapshots: scans of a /27 (30 hosts) in batches of 5 or 10,    *)
(* the probes of a batch completing in any order.                          *)
(***************************************************************************)
\* the hosts of the subnet, as indices into hosts (from 1)
ProgressHosts == DOMAIN enumerateHosts(Cidr(Some(27)))
ProgressArp == [k \in ProgressHosts |-> Undefined]

NextProgress ==
    \/ \E c \in {Some(5), Some(10)} : ScanCall("direct", Cidr(Some(27)), c)
    \/ ArpDone(ProgressArp)
    \/ \E k \in ProgressHosts : ProbeDone(k, Failure("timeout"), Failure("timeout"), TRUE)
    \/ DelayDone

SpecProgress == Started(<<>>, Epoch) /\ [][NextProgress]_vars

\* the snapshots of log taken when m host probes were completed
SnapshotsAt(log, m) == {j \in DOMAIN log : log[j].scanning /\ log[j].hostsScanned = m}

\* C24: the snapshots of a scan that returned are one for each multiple of
\* 10 that the number of completed probes reached, and one more, the last,
\* with progress 100% and scanning = false.
C24_SnapshotPerTenAndFinal ==
    [][(scan.pc # "idle" /\ scan'.pc = "idle" /\ lastScan'.outcome = "ok")
       => /\ \A m \in 1..Len(scan.hosts) :
                m % ProgressEvery = 0 => Cardinality(SnapshotsAt(progress', m)) = 1
          /\ Len(progress') = (Len(scan.hosts) \div ProgressEvery) + 1
          /\ progress'[Len(progress')].scanning = FALSE
          /\ progress'[Len(progress')].progress = [n |-> 100, d |-> 1]]_vars

\* C25: in the snapshots of one scan, hostsScanned never decreases from one
\* snapshot to the next.
C25_HostsScannedNonDecreasing ==
    \A a, b \in DOMAIN progress : a < b => progress[a].hostsScanned <= progress[b].hostsScanned

\* C26: a snapshot emitted when the probe of host k completes names host k
\* as the current host.
C26_CurrentHostIsLastCompleted ==
    [][\A k \in scan.tasks :
          (scan.pc = "batch" /\ scan'.pc # "idle" /\ scan'.tasks = scan.tasks \ {k}
           /\ Len(progress') = Len(progress) + 1)
          => progress'[Len(progress')].currentHost = Some(scan.hosts[k])]_vars

(***************************************************************************)
(* wiz-client.ts: one call of sendCommand and of the method that wraps it. *)
(* The state of the call is held in trial.  The reply datagrams, the error *)
(* events of the socket, the callback of send and the timer come in any    *)
(* order; the timer fires unless it is cleared.                            *)
(***************************************************************************)
\* the events that reach the socket of one call, at most
MaxEvents == 3

\* the methods of WizClient that wrap one sendCommand
Setters == {"setPower", "setState", "setScene", "setBrightness", "setColorTemp", "setRGB"}

\* the datagrams a host can answer with: text that is no JSON, the JSON
\* null, and objects with or without result and error fields
Datagrams ==
    {[json |-> "invalid", result |-> Undefined, error |-> Undefined],
     [json |-> "null", result |-> Undefined, error |-> Undefined]}
    \cup {[json |-> "object", result |-> r, error |-> e] :
             r \in {Undefined, Null, Some([success |-> TRUE])},
             e \in {Undefined, Null, Some([code |-> 0 - 32600])}}

\* the messages of the errors a socket or a send can report
ErrorMessages == {"ECONNRESET", "EACCES"}

\* the state of a call right after sendCommand has run: the socket is open
\* with its listeners, the timer is armed, send was called
SendCall(method) ==
    [kind |-> "send", method |-> method, completed |-> FALSE, closes |-> 0,
     listeners |-> TRUE, timer |-> "armed", sendCb |-> "pending", promise |-> Undefined,
     returned |-> Undefined, events |-> 0, seen |-> {}, first |-> Undefined]

\* cleanup() without its completed flag
cleanupNoFlag(call) ==
    [call EXCEPT !.completed = TRUE, !.listeners = FALSE, !.closes = call.closes + 1]

\* cleanup(): once, remove the listeners and close the socket
cleanup(call) ==
    IF ~call.completed
    THEN [call EXCEPT !.completed = TRUE, !.listeners = FALSE, !.closes = call.closes + 1]
    ELSE call

\* clearTimeout(timer)
clearTimer(call) == [call EXCEPT !.timer = IF call.timer = "armed" THEN "cleared" ELSE call.timer]

\* resolve(value) or reject(error) of the promise: the first one settles it
settle(call, outcome) ==
    IF call.promise = Undefined THEN [call EXCEPT !.promise = Some(outcome)] ELSE call

\* the outcome of the message listener for a datagram: JSON.parse, then
\* resolve(response) or reject('Invalid JSON response')
decoded(datagram) ==
    IF datagram.json = "invalid" THEN [kind |-> "malformed", result |-> Undefined, error |-> Undefined]
    ELSE IF datagram.json = "null" THEN [kind |-> "null", result |-> Undefined, error |-> Undefined]
    ELSE [kind |-> "reply", result |-> datagram.result, error |-> datagram.error]

\* the error the error listener rejects with
socketError(message) ==
    [kind |-> "transport", result |-> Undefined,
     error |-> Some(IF message \in {"ECONNABORTED", "ECONNRESET", "ETIMEDOUT", "ENOTFOUND"}
                    THEN "Connection error" ELSE message)]

\* the timer callback that closes the socket and does not reject
onTimeoutNoReject(call) == cleanup([call EXCEPT !.timer = "fired"])

\* the timer callback: cleanup(), reject('Request timeout')
onTimeout(call) ==
    settle(cleanup([call EXCEPT !.timer = "fired"]),
           [kind |-> "timeout", result |-> Undefined, error |-> Undefined])

\* socket.on('message'): clearTimeout, JSON.parse, cleanup, resolve or reject
onMessage(call, datagram) == settle(cleanup(clearTimer(call)), decoded(datagram))

\* socket.on('error'): clearTimeout, cleanup, reject
onError(call, message) == settle(cleanup(clearTimer(call)), socketError(message))

\* the callback of socket.send: on an error clearTimeout, cleanup, reject
onSent(call, error) ==
    IF IsValue(error)
    THEN settle(cleanup(clearTimer([call EXCEPT !.sendCb = "error"])),
                [kind |-> "senderr", result |-> Undefined, error |-> error])
    ELSE [call EXCEPT !.sendCb = "ok"]

\* a setter that only looks at the error field of the reply
setterReturnErrorOnly(outcome) ==
    IF outcome.kind = "reply" THEN outcome.error \in {Undefined, Null} ELSE FALSE

\* setPower, setBrightness, setColorTemp, setRGB, setState, setScene:
\* response.result !== undefined && !response.error, false when sendCommand
\* rejects or the expression throws (the response is null)
setterReturn(outcome) ==
    IF outcome.kind = "reply"
    THEN outcome.result # Undefined /\ outcome.error \in {Undefined, Null}
    ELSE FALSE

\* what the method returns to its caller for the outcome of sendCommand
clientReturn(method, outcome) ==
    IF method = "probe" THEN probe(outcome) ELSE setterReturn(outcome)

\* the event e noted as the first one that a listener, the callback of send
\* or the timer callback acted on, if none was before
noted(call, e) == IF call.first = Undefined THEN [call EXCEPT !.first = Some(e)] ELSE call

\* a step of the call in trial
SendStep(call) ==
    /\ trial.kind = "send"
    /\ trial' = call
    /\ lastCall' = "none"
    /\ swept' = Undefined
    /\ UNCHANGED <<now, scanInProgress, devices, store, scan, running, progress, lastScan,
                   arpRuns, refresh>>

\* a datagram arrives: the message listener runs if it is still attached
MessageArrives(datagram) ==
    /\ trial.events < MaxEvents
    /\ SendStep([(IF trial.listeners
                   THEN noted(onMessage(trial, datagram), [type |-> "message", data |-> datagram])
                   ELSE trial)
                    EXCEPT !.events = trial.events + 1,
                           !.seen = trial.seen \cup {"message"}])

\* the socket reports an error: the error listener runs if still attached
ErrorArrives(message) ==
    /\ trial.events < MaxEvents
    /\ SendStep([(IF trial.listeners
                   THEN noted(onError(trial, message), [type |-> "error", data |-> message])
                   ELSE trial)
                    EXCEPT !.events = trial.events + 1,
                           !.seen = trial.seen \cup {"error"}])

\* send completes, with an error or without
SendCompletes(error) ==
    /\ trial.sendCb = "pending"
    /\ SendStep([(IF IsValue(error)
                   THEN noted(onSent(trial, error), [type |-> "senderr", data |-> error])
                   ELSE onSent(trial, error))
                    EXCEPT !.seen = IF IsValue(error) THEN trial.seen \cup {"senderr"}
                                    ELSE trial.seen])

\* timeoutMs have passed and the timer was not cleared
TimerFires ==
    /\ trial.timer = "armed"
    /\ SendStep(noted(onTimeout(trial), [type |-> "timer", data |-> Undefined]))

\* the method that awaits sendCommand goes on and returns
ClientReturns ==
    /\ IsValue(trial.promise) /\ trial.returned = Undefined
    /\ SendStep([trial EXCEPT !.returned = Some(clientReturn(trial.method, Val(trial.promise)))])

InitSend ==
    \E method \in {"probe"} \cup Setters :
        /\ now = Epoch /\ scanInProgress = FALSE /\ store = <<>> /\ devices = <<>>
        /\ scan = IdleScan /\ running = 0 /\ progress = <<>> /\ lastCall = "none"
        /\ lastScan = NoScan /\ arpRuns = 0 /\ refresh = {} /\ swept = Undefined
        /\ trial = SendCall(method)

NextSend ==
    \/ \E datagram \in Datagrams : MessageArrives(datagram)
    \/ \E message \in ErrorMessages : ErrorArrives(message)
    \/ \E error \in {Undefined, Some("EACCES")} : SendCompletes(error)
    \/ TimerFires
    \/ ClientReturns

SpecSend == InitSend /\ [][NextSend]_vars /\ WF_vars(TimerFires) /\ WF_vars(ClientReturns)

\* C27: the socket of a call is closed at most once, and once the call has
\* its outcome the socket is closed, its listeners are removed and the timer
\* is not armed; no event that comes later changes the socket, the timer or
\* the outcome.
C27_EndpointReleasedOnce ==
    /\ [](trial.kind = "send"
          => /\ trial.closes <= 1
             /\ IsValue(trial.promise)
                => (trial.closes = 1 /\ ~trial.listeners /\ trial.timer # "armed"))
    /\ [][IsValue(trial.promise)
          => \A f \in {"completed", "closes", "listeners", "timer", "promise"} :
                trial'[f] = trial[f]]_vars

\* the timer fired first, then a datagram, a socket error and an error of
\* send came: the outcome is the timeout and the socket was closed once
C27_Witness ==
    /\ trial.kind = "send" /\ IsValue(trial.first) /\ Val(trial.first).type = "timer"
    /\ trial.seen = {"message", "error", "senderr"}
    /\ Val(trial.promise).kind = "timeout" /\ trial.closes = 1

\* C28: every call gets its outcome and returns to its caller, and the
\* outcome of a call that saw no datagram, no socket error and no error of
\* send is the timeout.
C28_CallCompletes ==
    /\ (trial.kind = "send" /\ trial.returned = Undefined) ~> IsValue(trial.returned)
    /\ []((trial.kind = "send" /\ IsValue(trial.promise) /\ trial.seen = {})
          => Val(trial.promise).kind = "timeout")

\* send completed without an error, nothing came, and the call timed out
C28_Witness ==
    /\ trial.kind = "send" /\ trial.sendCb = "ok" /\ trial.events = 0
    /\ IsValue(trial.returned) /\ Val(trial.promise).kind = "timeout"

\* the first event of the call was a datagram holding a JSON object with a
\* result payload
ReplyWithResult(call) ==
    /\ Val(call.first).type = "message"
    /\ Val(call.first).data.json = "object"
    /\ Val(call.first).data.result \notin {Undefined, Null}

\* C29: probe returns the response when the first event of the call was a
\* reply that holds a result payload, and absent (null) in every other
\* case; it never throws.
C29_ProbeReturnsResponseOrAbsent ==
    (trial.kind = "send" /\ trial.method = "probe" /\ IsValue(trial.returned))
    => IF ReplyWithResult(trial)
       THEN /\ Val(trial.returned) # Null /\ Val(trial.returned) # Thrown
            /\ Val(Val(trial.returned)).result = Val(trial.first).data.result
       ELSE Val(trial.returned) = Null

\* probe returned absent for a reply that is a JSON object without result
C29_Witness ==
    /\ trial.kind = "send" /\ trial.method = "probe" /\ IsValue(trial.returned)
    /\ Val(trial.first).type = "message" /\ Val(trial.first).data.json = "object"
    /\ Val(trial.first).data.result = Undefined
    /\ Val(trial.returned) = Null

\* the first event of the call was a datagram holding a JSON object
ReplyReceived(call) ==
    Val(call.first).type = "message" /\ Val(call.first).data.json = "object"

\* C30, as stated: a setter returns true exactly when a reply was received
\* and the reply carries no error, and false otherwise.
C30_SetterTrueIffNoError ==
    (trial.kind = "send" /\ trial.method \in Setters /\ IsValue(trial.returned))
    => Val(trial.returned) = (/\ ReplyReceived(trial)
                              /\ Val(trial.first).data.error \in {Undefined, Null})

\* C30, amended: a setter returns true exactly when a reply was received
\* that has a result field and carries no error, and false in every other
\* case (timeout, transport error, error of send, malformed reply, reply
\* without result, reply with an error); it never throws.
C30_SetterTrueIffResultAndNoError ==
    (trial.kind = "send" /\ trial.method \in Setters /\ IsValue(trial.returned))
    => Val(trial.returned) = (/\ ReplyReceived(trial)
                              /\ Val(trial.first).data.result # Undefined
                              /\ Val(trial.first).data.error \in {Undefined, Null})

\* setScene returned false for a reply that has neither result nor error
C30_Witness ==
    /\ trial.kind = "send" /\ trial.method = "setScene" /\ IsValue(trial.returned)
    /\ ReplyReceived(trial)
    /\ Val(trial.first).data.result = Undefined /\ Val(trial.first).data.error = Undefined
    /\ Val(trial.returned) = FALSE

(***************************************************************************)
(* wiz-client.ts: the parameters the setters transmit.  One call of a      *)
(* setter is held in trial, with arguments inside and outside the ranges.  *)
(***************************************************************************)
\* Math.max(lo, Math.min(hi, x))
clamp(lo, hi, x) ==
    LET m == IF x < hi THEN x ELSE hi
    IN  IF m < lo THEN lo ELSE m

\* the params object of a setPilot command
Params(state, dimming, temp, r, g, b, speed, sceneId) ==
    [state |-> state, dimming |-> dimming, temp |-> temp, r |-> r, g |-> g, b |-> b,
     speed |-> speed, sceneId |-> sceneId]

\* setBrightness(ip, brightness)
setBrightnessParams(brightness) ==
    Params(Some(TRUE), Some(clamp(10, 100, brightness)), Undefined, Undefined, Undefined,
           Undefined, Undefined, Undefined)

\* setColorTemp(ip, temp)
setColorTempParams(temp) ==
    Params(Some(TRUE), Undefined, Some(clamp(2200, 6500, temp)), Undefined, Undefined,
           Undefined, Undefined, Undefined)

\* setRGB(ip, r, g, b)
setRGBParams(r, g, b) ==
    Params(Some(TRUE), Undefined, Undefined, Some(clamp(0, 255, r)), Some(clamp(0, 255, g)),
           Some(clamp(0, 255, b)), Undefined, Undefined)

\* setScene(ip, sceneId, speed = 100)
setSceneParams(sceneId, speed) ==
    Params(Some(TRUE), Undefined, Undefined, Undefined, Undefined, Undefined,
           Some(clamp(0, 200, IF speed = Undefined THEN 100 ELSE Val(speed))), Some(sceneId))

\* setState(ip, state): only the fields of state that are present
setStateParams(state) ==
    Params(state.power,
           IF state.brightness # Undefined THEN Some(clamp(10, 100, Val(state.brightness)))
           ELSE Undefined,
           IF state.colorTemp # Undefined THEN Some(clamp(2200, 6500, Val(state.colorTemp)))
           ELSE Undefined,
           IF Truthy(state.rgb) THEN Some(clamp(0, 255, Val(state.rgb).r)) ELSE Undefined,
           IF Truthy(state.rgb) THEN Some(clamp(0, 255, Val(state.rgb).g)) ELSE Undefined,
           IF Truthy(state.rgb) THEN Some(clamp(0, 255, Val(state.rgb).b)) ELSE Undefined,
           IF state.speed # Undefined THEN state.speed ELSE Undefined,
           IF state.sceneId # Undefined THEN state.sceneId ELSE Undefined)

\* the params a setter transmits for the state it is called with
setterParams(method, state) ==
    IF method = "setBrightness" THEN setBrightnessParams(Val(state.brightness))
    ELSE IF method = "setColorTemp" THEN setColorTempParams(Val(state.colorTemp))
    ELSE IF method = "setRGB"
         THEN setRGBParams(Val(state.rgb).r, Val(state.rgb).g, Val(state.rgb).b)
    ELSE IF method = "setScene" THEN setSceneParams(Val(state.sceneId), state.speed)
    ELSE setStateParams(state)

\* the values a caller passes: below, inside and above each range
SetterStates ==
    {DeviceState(Some(TRUE), brightness, colorTemp, Some(1), rgb, speed) :
        brightness \in {Some(9), Some(50), Some(101)},
        colorTemp \in {Some(2199), Some(4000), Some(6501)},
        rgb \in {Some([r |-> 0 - 1, g |-> 128, b |-> 256]), Some([r |-> 0, g |-> 255, b |-> 7])},
        speed \in {Undefined, Some(0 - 1), Some(100), Some(201)}}

InitClamp ==
    \E method \in {"setState", "setScene", "setBrightness", "setColorTemp", "setRGB"},
       state \in SetterStates :
        /\ now = Epoch /\ scanInProgress = FALSE /\ store = <<>> /\ devices = <<>>
        /\ scan = IdleScan /\ running = 0 /\ progress = <<>> /\ lastCall = "none"
        /\ lastScan = NoScan /\ arpRuns = 0 /\ refresh = {} /\ swept = Undefined
        /\ trial = [kind |-> "set", method |-> method, state |-> state, params |-> Undefined]

\* the setter builds its command
ApplySetter ==
    /\ trial.kind = "set"
    /\ trial' = [trial EXCEPT !.kind = "sent",
                              !.params = Some(setterParams(trial.method, trial.state))]
    /\ lastCall' = "none"
    /\ swept' = Undefined
    /\ UNCHANGED <<now, scanInProgress, devices, store, scan, running, progress, lastScan,
                   arpRuns, refresh>>

NextClamp == ApplySetter

SpecClamp == InitClamp /\ [][NextClamp]_vars

\* the numeric parameter o is absent or within lo..hi
InRange(o, lo, hi) == IsValue(o) => (lo <= Val(o) /\ Val(o) <= hi)

\* C31: every numeric parameter a setter transmits is within its range:
\* dimming 10..100, temp 2200..6500, r, g and b 0..255, speed 0..200.
C31_TransmittedParamsInRange ==
    trial.kind = "sent"
    => /\ InRange(Val(trial.params).dimming, 10, 100)
       /\ InRange(Val(trial.params).temp, 2200, 6500)
       /\ InRange(Val(trial.params).r, 0, 255)
       /\ InRange(Val(trial.params).g, 0, 255)
       /\ InRange(Val(trial.params).b, 0, 255)
       /\ InRange(Val(trial.params).speed, 0, 200)

(***************************************************************************)
(* Replies that carry values outside the ranges: host 1 reports a dimming  *)
(* of 5 and a temperature of 7000 to a scan, and the same to a state query.*)
(***************************************************************************)
\* a getPilot result with dimming and temp outside their ranges
WideResult ==
    Result(Undefined, Undefined, Some(TRUE), Some(5), Some(7000), Undefined, Undefined,
           Undefined)

NextRange ==
    \/ ScanCall("direct", Cidr(Some(30)), Undefined)
    \/ ArpDone(FullArp)
    \/ \E k \in 1..2 :
          \E pilot \in {Failure("timeout"), Reply(Some(BareResult)), Reply(Some(WideResult))} :
              ProbeDone(k, pilot, Failure("timeout"), TRUE)
    \/ DelayDone
    \/ \E id \in DOMAIN devices :
          \E reply \in StateOutcomes \cup {Reply(Some(WideResult))} : UpdateState(id, reply)
    \/ RefreshStart
    \/ \E it \in refresh :
          \E reply \in StateOutcomes \cup {Reply(Some(WideResult))} : RefreshDone(it, reply)

SpecRange == Started(<<>>, Epoch) /\ [][NextRange]_vars

\* C32: the numeric state fields of every record of the registry are within
\* their ranges: brightness 10..100, colorTemp 2200..6500, rgb channels
\* 0..255.
C32_StoredStateInRange ==
    \A id \in DOMAIN devices :
        IsValue(devices[id].state)
        => /\ InRange(Val(devices[id].state).brightness, 10, 100)
           /\ InRange(Val(devices[id].state).colorTemp, 2200, 6500)
           /\ IsValue(Val(devices[id].state).rgb)
              => \A c \in 1..3 : Val(Val(devices[id].state).rgb)[c] \in 0..255

(***************************************************************************)
(* utils/network.ts on its own: parseCIDR and enumerateHosts of one CIDR   *)
(* string, the two conversions of one number and of one dotted quad.       *)
(***************************************************************************)
\* the host lists the model writes out in full have at most this many hosts
\* (a /26); of a longer list the model keeps the number of hosts only
MaxListed == 62

\* network addresses: ordinary ones, one that is not aligned, the two ends
\* of the address space and addresses next to its upper end
NetAddresses ==
    {<<192, 168, 1, 0>>, <<10, 0, 0, 0>>, <<192, 168, 1, 5>>, <<0, 0, 0, 0>>,
     <<255, 255, 255, 255>>, <<255, 255, 255, 248>>, <<255, 255, 255, 250>>,
     <<255, 255, 0, 0>>}
\* prefix strings: the decimal strings of -1..33, and a missing or
\* non-numeric one
PrefixStrings == {Some(p) : p \in (0 - 1)..33} \cup {Undefined}
Edge16 == {0, 1, 255, 256, 32767, 32768, 65534, 65535}
\* 32-bit values
Numbers == {[hi |-> h, lo |-> l] : h \in Edge16, l \in Edge16}
EdgeOctets == {0, 1, 127, 128, 255}
\* canonical dotted quads
Quads == {<<a, b, c, d>> : a \in EdgeOctets, b \in EdgeOctets, c \in EdgeOctets, d \in EdgeOctets}

\* the number of iterations of for (let i = firstNum; i <= lastNum; i++)
loopCount(firstNum, lastNum) ==
    IF NumLeq(firstNum, lastNum) THEN NumAdd(NumSub(lastNum, firstNum), Num(1)) ELSE Num(0)

\* a call of enumerateHosts: the error it ends with ("Exhausted": the loop
\* pushes 2^32 - 1 strings or more, which no array can hold), the number of
\* hosts pushed and the list returned
enumerateCall(cidr) ==
    LET err == enumerateHostsError(cidr)
        p == parseCIDR(cidr)
        count == loopCount(ipToNumber(p.firstHost), ipToNumber(p.lastHost))
    IN  IF err # "none" THEN [error |-> err, count |-> Undefined, hosts |-> Undefined]
        ELSE IF NumLess(Num(MaxRange), count)
             THEN [error |-> "Exhausted", count |-> Some(count), hosts |-> Undefined]
             ELSE [error |-> "none", count |-> Some(count),
                   hosts |-> IF NumLeq(count, Num(MaxListed))
                             THEN Some(enumerateHosts(cidr)) ELSE Undefined]

NetTrial(kind, cidr, n, ip) ==
    [kind |-> kind, pc |-> "start", cidr |-> cidr, n |-> n, ip |-> ip,
     parsed |-> Undefined, listed |-> Undefined, back |-> Undefined]

InitNet ==
    /\ now = Epoch /\ scanInProgress = FALSE /\ store = <<>> /\ devices = <<>>
    /\ scan = IdleScan /\ running = 0 /\ progress = <<>> /\ lastCall = "none"
    /\ lastScan = NoScan /\ arpRuns = 0 /\ refresh = {} /\ swept = Undefined
    /\ \/ \E network \in NetAddresses, prefix \in PrefixStrings :
             trial = NetTrial("cidr", [network |-> network, prefix |-> prefix],
                              Undefined, Undefined)
       \/ \E n \in Numbers : trial = NetTrial("number", Undefined, Some(n), Undefined)
       \/ \E ip \in Quads : trial = NetTrial("quad", Undefined, Undefined, Some(ip))

NetStep ==
    /\ lastCall' = "none" /\ swept' = Undefined
    /\ UNCHANGED <<now, scanInProgress, devices, store, scan, running, progress,
                   lastScan, arpRuns, refresh>>

\* parseCIDR(cidr)
ParseCall ==
    /\ trial.kind = "cidr" /\ trial.pc = "start"
    /\ trial' = [trial EXCEPT !.pc = "parsed",
                              !.parsed = IF parseCIDRError(trial.cidr) # "none" THEN Thrown
                                         ELSE Some(parseCIDR(trial.cidr))]
    /\ NetStep

\* enumerateHosts(cidr)
EnumerateCall ==
    /\ trial.kind = "cidr" /\ trial.pc \in {"start", "parsed"}
    /\ trial' = [trial EXCEPT !.pc = "enumerated", !.listed = Some(enumerateCall(trial.cidr))]
    /\ NetStep

\* ipToNumber(numberToIp(n))
NumberRoundTrip ==
    /\ trial.kind = "number" /\ trial.pc = "start"
    /\ trial' = [trial EXCEPT !.pc = "converted", !.ip = Some(numberToIp(trial.n)),
                              !.back = Some(ipToNumber(numberToIp(trial.n)))]
    /\ NetStep

\* numberToIp(ipToNumber(ip))
QuadRoundTrip ==
    /\ trial.kind = "quad" /\ trial.pc = "start"
    /\ trial' = [trial EXCEPT !.pc = "converted", !.n = Some(ipToNumber(Val(trial.ip))),
                              !.back = Some(numberToIp(Some(ipToNumber(Val(trial.ip)))))]
    /\ NetStep

NextNet == ParseCall \/ EnumerateCall \/ NumberRoundTrip \/ QuadRoundTrip

SpecNet == InitNet /\ [][NextNet]_vars

PrefixOf(t) == t.cidr.prefix
ValidPrefix(t) == IsValue(PrefixOf(t)) /\ Val(PrefixOf(t)) \in 0..32

\* C33: parseCIDR fails for every prefix that is not an integer in 0..32
\* (33, -1, a missing or non-numeric prefix) and succeeds for every prefix
\* in 0..32.
C33_ParseFailsOutsideRange ==
    (trial.kind = "cidr" /\ trial.pc = "parsed")
        => (trial.parsed = Thrown <=> ~ValidPrefix(trial))

\* max(0, 2^(32 - prefix) - 2)
ExpectedHosts(prefix) ==
    IF prefix >= 31 THEN Num(0) ELSE NumSub(Pow2(32 - prefix), Num(2))

\* C34: for every prefix in 16..32 and any network address enumerateHosts
\* returns exactly max(0, 2^(32-prefix) - 2) addresses, the j-th being
\* network + j (so ascending, from network + 1 to network + totalHosts), and
\* the empty list for prefixes 31 and 32.
C34_HostsAreTheUsableRange ==
    (trial.kind = "cidr" /\ trial.pc = "enumerated"
        /\ ValidPrefix(trial) /\ Val(PrefixOf(trial)) >= 16)
        => LET call == Val(trial.listed)
               network == ipToNumber(trial.cidr.network)
           IN  /\ call.error = "none"
               /\ call.count = Some(ExpectedHosts(Val(PrefixOf(trial))))
               /\ IsValue(call.hosts)
                    => /\ Num(Len(Val(call.hosts))) = Val(call.count)
                       /\ \A j \in DOMAIN Val(call.hosts) :
                             Val(call.hosts)[j] = numberToIp(Some(NumAdd(network, Num(j))))

\* C35: enumerateHosts fails with the size-limit error for every prefix in
\* 0..15, before any host is listed, and succeeds for every prefix in 16..32.
C35_TooLargeIffBelowSixteen ==
    (trial.kind = "cidr" /\ trial.pc = "enumerated" /\ ValidPrefix(trial))
        => LET call == Val(trial.listed)
           IN  IF Val(PrefixOf(trial)) <= 15
               THEN call.error = "TooLarge" /\ call.count = Undefined /\ call.hosts = Undefined
               ELSE call.error = "none"

\* C36: ipToNumber(numberToIp(n)) = n for every 32-bit n,
\* numberToIp(ipToNumber(ip)) = ip for every canonical dotted quad, and
\* ipToNumber returns no negative value.
C36_ConversionsAreInverse ==
    trial.pc = "converted"
        => /\ trial.kind = "number" => trial.back = trial.n
           /\ trial.kind = "quad" => (trial.back = trial.ip /\ ~NumLess(Val(trial.n), Num(0)))

\* both conversions were applied to the ends of the range
C36_Witness ==
    /\ trial.pc = "converted" /\ trial.kind = "quad"
    /\ trial.ip = Some(<<255, 255, 255, 255>>)
    /\ trial.n = Some([hi |-> 65535, lo |-> 65535])

(***************************************************************************)
(* Two hosts of one batch that are the same device: the ARP table gives    *)
(* both the MAC of device 1, or both answer with it.  Sweeps of the        *)
(* control surface arrive between the tasks' completions.                  *)
(***************************************************************************)
TwinArp == [k \in 1..2 |-> Some(NormalMac(1))]

NextTwin ==
    \/ ScanCall("direct", Cidr(Some(30)), Undefined)
    \/ \E table \in {NoArp, TwinArp} : ArpDone(table)
    \/ \E k \in 1..2,
          pilot \in {Failure("timeout"), Reply(Some(BareResult)), Reply(Some(FullResult(1)))} :
          ProbeDone(k, pilot, Failure("timeout"), TRUE)
    \/ DelayDone
    \/ RemoveStale

\* the database is empty, or holds device 1 as a stale record
TwinStores ==
    {<<>>} \cup {db \in RegistryStores : \A id \in DOMAIN db : db[id].lastSeen < Epoch - StaleAfter}

SpecTwin == (\E db \in TwinStores : Started(db, Epoch)) /\ [][NextTwin]_vars

\* C37: the merge of a candidate is one step on the registry as it is when
\* the host's task resumes: the candidate's id is inserted only when the
\* registry has no record for it, a record it has is not made poorer, the
\* registry ends the step with a record for the id that is as rich as the
\* candidate and was seen now, and no other entry changes in the step.
C37_MergeIsOneStep ==
    [][\A a \in scan'.answers \ scan.answers :
          LET c == CandidateOf(a)
          IN  /\ c.id \in DOMAIN devices'
              /\ DOMAIN devices' = DOMAIN devices \cup {c.id}
              /\ \A id \in DOMAIN devices \ {c.id} : devices'[id] = devices[id]
              /\ devices'[c.id].lastSeen = now
              /\ countDeviceFeatures(devices'[c.id]) >= countDeviceFeatures(c)
              /\ scan'.devicesFound
                    = scan.devicesFound + (IF c.id \in DOMAIN devices THEN 0 ELSE 1)
              /\ c.id \in DOMAIN devices
                    => /\ countDeviceFeatures(devices'[c.id])
                             >= countDeviceFeatures(devices[c.id])
                       /\ confidenceOrder(devices'[c.id].confidence)
                             >= confidenceOrder(devices[c.id].confidence)]_vars

\* both hosts of the batch answered as device 1, one with a bare state and
\* the other in full: the scan counts one device and the
\* registry holds one record, as rich as the second candidate
C37_Witness ==
    /\ \E a \in scan.answers, b \in scan.answers :
          /\ a.host # b.host
          /\ CandidateOf(a).id = CandidateOf(b).id
          /\ a.reply = Reply(Some(BareResult)) /\ b.reply = Reply(Some(FullResult(1)))
          /\ DOMAIN devices = {CandidateOf(a).id}
          /\ countDeviceFeatures(devices[CandidateOf(a).id]) = countDeviceFeatures(CandidateOf(b))
    /\ scan.devicesFound = 1

(***************************************************************************)
(* A refresh pass whose state queries are all answered, while a scan of    *)
(* the same network merges its candidates.                                 *)
(***************************************************************************)
NextAnswered ==
    \/ ScanCall("direct", Cidr(Some(30)), Undefined)
    \/ ArpDone(FullArp)
    \/ \E k \in 1..2 : \E pilot \in RegistryReplies(k) :
          ProbeDone(k, pilot, Failure("timeout"), TRUE)
    \/ DelayDone
    \/ RefreshStart
    \/ \E it \in refresh : RefreshDone(it, StateReply)
    \/ Tick(1)

SpecAnswered == InitRegistry /\ [][NextAnswered]_vars

\* C38: when a state query of refreshDevices is answered for a device whose
\* id is in the registry, the registry's record of that id carries the
\* state of the reply and the time of the reply as lastSeen after the step.
C38_RefreshNeverLost ==
    [][Cardinality(refresh') < Cardinality(refresh)
          => \A it \in refresh \ refresh' :
                it.id \in DOMAIN devices
                   => /\ devices'[it.id].state = getState(StateReply)
                      /\ devices'[it.id].lastSeen = now]_vars

(***************************************************************************)
(* The registry's keys                                                     *)
(***************************************************************************)
\* C39: every entry of the registry holds a record whose id is the key of
\* the entry, after any sequence of startup load, scans, updateDevice,
\* refreshDevices and removeStaleDevices calls.
C39_RecordIdIsKey == \A key \in DOMAIN devices : devices[key].id = key

\* a scan returned, the device loaded at startup was renamed and a refresh
\* wrote a state into its record
C39_Witness ==
    /\ lastScan.outcome = "ok"
    /\ \E key \in DOMAIN devices :
          /\ devices[key].name = Some("lamp")
          /\ devices[key].state = getState(StateReply)
          /\ devices[key].lastSeen > Epoch

(***************************************************************************)
(* scheduler.ts: the ScheduleManager on its own.  trial holds the          *)
(* schedules table of the database (rules), the jobs table of the manager  *)
(* (jobs: rule id -> job), the jobs of node-schedule that were created and *)
(* not cancelled (live) and the number of jobs created so far (made).      *)
(***************************************************************************)
\* the jobs created in one run of the model
MaxJobs == 3

RuleIds == {"r1", "r2"}
\* rule.cron: an expression node-schedule accepts, or one it does not
Crons == {"0 7 * * *", "not a cron"}
\* the updates of PATCH /api/schedules/:id: any of enabled and cron
ScheduleUpdates ==
    {[enabled |-> en, cron |-> cron] :
        en \in {Undefined, Some(TRUE), Some(FALSE)},
        cron \in {Undefined} \cup {Some(c) : c \in Crons}}

\* schedule.scheduleJob(rule.cron, ...): a job, or null for an expression
\* that is no cron
scheduleJob(cron, id, made) ==
    IF cron = "0 7 * * *" THEN Some([rule |-> id, n |-> made + 1]) ELSE Null

\* scheduleRule(rule) on the manager state s
scheduleRule(s, id, rule) ==
    LET cancelled == IF id \in DOMAIN s.jobs THEN s.live \ {s.jobs[id]} ELSE s.live
        job == scheduleJob(rule.cron, id, s.made)
    IN  IF IsValue(job)
        THEN [s EXCEPT !.live = cancelled \cup {Val(job)},
                       !.jobs = MapSet(s.jobs, id, Val(job)),
                       !.made = s.made + 1]
        ELSE [s EXCEPT !.live = cancelled]

\* unscheduleRule(id)
unscheduleRule(s, id) ==
    IF id \in DOMAIN s.jobs
    THEN [s EXCEPT !.live = s.live \ {s.jobs[id]}, !.jobs = MapDelete(s.jobs, {id})]
    ELSE s

ManagerStep(s) ==
    /\ s.made <= MaxJobs
    /\ trial' = s
    /\ lastCall' = "none" /\ swept' = Undefined
    /\ UNCHANGED <<now, scanInProgress, devices, store, scan, running, progress,
                   lastScan, arpRuns, refresh>>

\* addSchedule(rule); createSchedule throws when the id is in the table
AddSchedule(id, enabled, cron) ==
    /\ trial.kind = "manager"
    /\ LET rule == [enabled |-> enabled, cron |-> cron]
           stored == [trial EXCEPT !.rules = MapSet(trial.rules, id, rule), !.last = "add"]
       IN  IF id \in DOMAIN trial.rules THEN ManagerStep([trial EXCEPT !.last = "thrown"])
           ELSE IF rule.enabled THEN ManagerStep(scheduleRule(stored, id, rule))
           ELSE ManagerStep(stored)

\* updateSchedule(id, updates)
UpdateSchedule(id, updates) ==
    /\ trial.kind = "manager"
    /\ IF id \notin DOMAIN trial.rules
       THEN ManagerStep([trial EXCEPT !.last = "not found"])
       ELSE LET rule == [enabled |-> IF IsValue(updates.enabled) THEN Val(updates.enabled)
                                     ELSE trial.rules[id].enabled,
                         cron |-> IF IsValue(updates.cron) THEN Val(updates.cron)
                                  ELSE trial.rules[id].cron]
                stored == [trial EXCEPT !.rules = MapSet(trial.rules, id, rule),
                                        !.last = "update"]
            IN  IF rule.enabled THEN ManagerStep(scheduleRule(stored, id, rule))
                ELSE ManagerStep(unscheduleRule(stored, id))

\* setScheduleEnabled(id, enabled)
SetScheduleEnabled(id, enabled) ==
    UpdateSchedule(id, [enabled |-> Some(enabled), cron |-> Undefined])

\* deleteSchedule(id)
DeleteSchedule(id) ==
    /\ trial.kind = "manager"
    /\ LET s == unscheduleRule(trial, id)
       IN  ManagerStep([s EXCEPT !.rules = MapDelete(s.rules, {id}),
                                 !.last = IF id \in DOMAIN s.rules THEN "delete"
                                          ELSE "not found"])

\* shutdown()
Shutdown ==
    /\ trial.kind = "manager"
    /\ ManagerStep([trial EXCEPT !.live = trial.live \ {trial.jobs[id] : id \in DOMAIN trial.jobs},
                                 !.jobs = <<>>, !.last = "shutdown"])

\* the manager after initialize() on an empty schedules table
InitManager ==
    /\ now = Epoch /\ scanInProgress = FALSE /\ store = <<>> /\ devices = <<>>
    /\ scan = IdleScan /\ running = 0 /\ progress = <<>> /\ lastCall = "none"
    /\ lastScan = NoScan /\ arpRuns = 0 /\ refresh = {} /\ swept = Undefined
    /\ trial = [kind |-> "manager", rules |-> <<>>, jobs |-> <<>>, live |-> {}, made |-> 0,
                last |-> "none"]

NextManager ==
    \/ \E id \in RuleIds, enabled \in BOOLEAN, cron \in Crons : AddSchedule(id, enabled, cron)
    \/ \E id \in RuleIds, updates \in ScheduleUpdates : UpdateSchedule(id, updates)
    \/ \E id \in RuleIds, enabled \in BOOLEAN : SetScheduleEnabled(id, enabled)
    \/ \E id \in RuleIds : DeleteSchedule(id)
    \/ Shutdown

SpecManager == InitManager /\ [][NextManager]_vars

\* C40: a rule id has a live job only if the rule is in the store and
\* enabled, no rule id has two live jobs, and every job of the jobs table
\* is live.
C40_JobsFollowRules ==
    /\ \A job \in trial.live :
          job.rule \in DOMAIN trial.rules /\ trial.rules[job.rule].enabled
    /\ \A a \in trial.live, b \in trial.live : a.rule = b.rule => a = b
    /\ \A id \in DOMAIN trial.jobs : trial.jobs[id] \in trial.live

====
